---------------------------- MODULE Spec2Model ----------------------------
(***************************************************************************)
(* TheAmiiboDoctor: validation and repair of NTAG215 tag images stored as   *)
(* Flipper .nfc text dumps and raw .bin dumps.                              *)
(*                                                                          *)
(* A byte is an integer 0..255.  A text file is the list `lines` that       *)
(* content.split('\n') yields; a line is a record                           *)
(*     [k, n, d, raw]                                                       *)
(*   k = "Version": a line matching  Version:\s*(\d+)      n = the number   *)
(*   k = "UID":     a line matching  UID:\s*([0-9A-Fa-f\s]+) d = its bytes  *)
(*   k = "Page":    a line matching  Page\s+(\d+):\s*(...) n, d             *)
(*   k = "Other":   any other line (comment, header, blank), n names its    *)
(*                  text                                                    *)
(* raw = TRUE says that the spelling of the line differs from the one the   *)
(* program writes ("Page 130: 01 00 0F BF": upper case, single spaces, no   *)
(* trailing carriage return); parsing drops the spelling, writing always    *)
(* produces raw = FALSE.  The data d of a line is the sequence of bytes its  *)
(* hex digits spell; when the digits are odd in number, the lone last digit *)
(* h is kept as the element 256 + h.  A binary file is its sequence of      *)
(* bytes, offset o of the file being element o + 1 of the sequence.         *)
(***************************************************************************)
EXTENDS Integers, Sequences, FiniteSets, TLC

VARIABLES
    fs,              \* the directory: path (1..n, in scan order) -> file content
    fs0,             \* history: the directory as it was when the run started
    backups,         \* this run's backup folder: path -> content, or NoFile
    backup_tracker,  \* paths backup_file has been called for
    opts,            \* the command line: the six fix flags, convert_to_v4, dry_run
    pc,              \* where the program is
    cur,             \* the file the scan is at
    job,             \* the locals of the scan's loop body for that file
    all_files,       \* the per-file status records of the scan
    log,             \* history: the calls and writes of the run, in order
    calls,           \* history: the repair calls made so far
    diag             \* the last result of check_uid_comprehensive

vars ==
    <<fs, fs0, backups, backup_tracker, opts, pc, cur, job, all_files, log,
      calls, diag>>

----------------------------------------------------------------------------
(* Program constants *)

\* ct = 0x88, the cascade tag
CT == 136
\* the binary codec's minimum length
MinBinLen == 540

correct_pack == <<128, 128, 0, 0>>
correct_dlb  == <<1, 0, 15, 191>>
correct_cfg0 == <<0, 0, 0, 4>>
correct_cfg1 == <<95, 0, 0, 0>>

\* the pages the program inspects
TrackedPages == {0, 1, 2, 130, 131, 132, 133, 134}

----------------------------------------------------------------------------
(* Bytes *)

RECURSIVE XorBits(_, _, _)
XorBits(a, b, n) ==
    IF n = 0 THEN 0
    ELSE (((a % 2) + (b % 2)) % 2) + (2 * XorBits(a \div 2, b \div 2, n - 1))

\* the exclusive or of two 4-bit numbers h and l, at index 16 * h + l
XorNibble == [i \in 0..255 |-> XorBits(i \div 16, i % 16, 4)] @@ <<>>

\* Python's a ^ b on two bytes: the high and the low 4 bits
Xor(a, b) ==
    (16 * XorNibble[(16 * (a \div 16)) + (b \div 16)])
    + XorNibble[(16 * (a % 16)) + (b % 16)]

\* s[:n]
Take(s, n) == SubSeq(s, 1, IF Len(s) < n THEN Len(s) ELSE n)

----------------------------------------------------------------------------
(* Field derivation *)

\* mutant: BCC0 computed without the cascade tag
expected_bcc0_no_ct(uid) == Xor(Xor(uid[1], uid[2]), uid[3])

expected_bcc0(uid) == Xor(Xor(Xor(CT, uid[1]), uid[2]), uid[3])

\* mutant: BCC1 taken one byte early, over SN2..SN5
expected_bcc1_from_sn2(uid) == Xor(Xor(Xor(uid[3], uid[4]), uid[5]), uid[6])

expected_bcc1(uid) == Xor(Xor(Xor(uid[4], uid[5]), uid[6]), uid[7])

\* None (here <<>>) when fewer than 7 bytes are given
calculate_password_from_uid(uid) ==
    IF Len(uid) < 7 THEN <<>>
    ELSE << Xor(Xor(uid[2], uid[4]), 170),
            Xor(Xor(uid[3], uid[5]), 85),
            Xor(Xor(uid[4], uid[6]), 170),
            Xor(Xor(uid[5], uid[7]), 85) >>

----------------------------------------------------------------------------
(* Tag image decoder *)

\* version = None
NoVersion == -1
\* uid_field = None
NoUid == [some |-> FALSE, d |-> <<>>]
\* pages = None, or the empty dict: `not pages` is true of both
NoPages == [n \in {} |-> <<>>]

PageLineIdx(lines, n) ==
    {i \in 1..Len(lines) : lines[i].k = "Page" /\ lines[i].n = n}

KindIdx(lines, k) == {i \in 1..Len(lines) : lines[i].k = k}

Last(S) == CHOOSE i \in S : \A j \in S : j <= i

\* the pages dict built from lines lo..hi: pages[page_num] = page_data, a
\* later line of a page number replacing an earlier one (the left operand of
\* @@ wins).  The loop over the lines is split in halves.
RECURSIVE PagesIn(_, _, _)
PagesIn(lines, lo, hi) ==
    IF lo > hi THEN NoPages
    ELSE IF lo = hi
    THEN IF lines[lo].k = "Page" THEN lines[lo].n :> lines[lo].d ELSE NoPages
    ELSE LET mid == (lo + hi) \div 2
         IN PagesIn(lines, mid + 1, hi) @@ PagesIn(lines, lo, mid)

nfc_pages(lines) == PagesIn(lines, 1, Len(lines))

\* group(1).replace(' ', '').upper() of the last UID line
nfc_uid_field(lines) ==
    IF KindIdx(lines, "UID") = {} THEN NoUid
    ELSE [some |-> TRUE, d |-> lines[Last(KindIdx(lines, "UID"))].d]

nfc_version(lines) ==
    IF KindIdx(lines, "Version") = {} THEN NoVersion
    ELSE lines[Last(KindIdx(lines, "Version"))].n

extract_pages_from_nfc(f) ==
    [pages |-> nfc_pages(f.lines), lines |-> f.lines,
     uid_field |-> nfc_uid_field(f.lines), version |-> nfc_version(f.lines)]

\* data[page_num * 4 : page_num * 4 + 4]
BinPage(data, n) == SubSeq(data, (4 * n) + 1, (4 * n) + 4)

\* mutant: no minimum length, the pages that fit in the data are returned
extract_pages_from_bin_partial(f) ==
    [n \in {m \in TrackedPages : (4 * m) + 4 <= Len(f.data)} |->
        BinPage(f.data, n)] @@ NoPages

extract_pages_from_bin(f) ==
    IF Len(f.data) < MinBinLen THEN NoPages
    ELSE [n \in {m \in TrackedPages : (4 * m) + 4 <= Len(f.data)} |->
             BinPage(f.data, n)] @@ NoPages

\* bytes.fromhex(page_data) raises ValueError: the digits are odd in number
fromhex_raises(d) == \E i \in 1..Len(d) : d[i] > 255

\* page0_bytes[:3] + page1_bytes[:4]
UidOf(pages) == Take(pages[0], 3) \o Take(pages[1], 4)

----------------------------------------------------------------------------
(* Field validator *)

AllFalse ==
    [uid_field |-> FALSE, sn3 |-> FALSE, bcc0 |-> FALSE, bcc1 |-> FALSE,
     password |-> FALSE, pack |-> FALSE, dlb |-> FALSE, cfg0 |-> FALSE,
     cfg1 |-> FALSE]

HasAll(pages, S) == S \subseteq DOMAIN pages

\* mutant: the verdict on pages 130-132 is the verdict on DLB alone
validate_dlb_and_cfg_dlb_only(pages) ==
    IF ~HasAll(pages, {130, 131, 132})
    THEN [all_valid |-> FALSE, dlb |-> FALSE, cfg0 |-> FALSE, cfg1 |-> FALSE]
    ELSE [all_valid |-> Take(pages[130], 4) = correct_dlb,
          dlb |-> Take(pages[130], 4) = correct_dlb,
          cfg0 |-> Take(pages[131], 4) = correct_cfg0,
          cfg1 |-> Take(pages[132], 4) = correct_cfg1]

\* mutant: each of the three verdicts looks at its own page only
validate_dlb_and_cfg_own_page(pages) ==
    LET ok(n, v) == n \in DOMAIN pages /\ Len(pages[n]) >= 4
                    /\ Take(pages[n], 4) = v
    IN [all_valid |-> ok(130, correct_dlb) /\ ok(131, correct_cfg0)
                      /\ ok(132, correct_cfg1),
        dlb |-> ok(130, correct_dlb), cfg0 |-> ok(131, correct_cfg0),
        cfg1 |-> ok(132, correct_cfg1)]

\* (all_valid, dlb_valid, cfg0_valid, cfg1_valid)
validate_dlb_and_cfg(pages) ==
    IF ~HasAll(pages, {130, 131, 132})
    THEN [all_valid |-> FALSE, dlb |-> FALSE, cfg0 |-> FALSE, cfg1 |-> FALSE]
    ELSE IF Len(pages[130]) < 4 \/ Len(pages[131]) < 4 \/ Len(pages[132]) < 4
    THEN [all_valid |-> FALSE, dlb |-> FALSE, cfg0 |-> FALSE, cfg1 |-> FALSE]
    ELSE LET dlb_valid  == Take(pages[130], 4) = correct_dlb
             cfg0_valid == Take(pages[131], 4) = correct_cfg0
             cfg1_valid == Take(pages[132], 4) = correct_cfg1
         IN [all_valid |-> dlb_valid /\ cfg0_valid /\ cfg1_valid,
             dlb |-> dlb_valid, cfg0 |-> cfg0_valid, cfg1 |-> cfg1_valid]

\* check_uid_comprehensive raises ValueError: one of the bytes.fromhex calls
\* it comes to fails (pages 0 and 1; with a UID of 7 bytes page 2, pages 133
\* and 134 when both are there, pages 130-132 when all three are there)
check_raises(pages) ==
    /\ HasAll(pages, {0, 1})
    /\ \/ fromhex_raises(pages[0])
       \/ fromhex_raises(pages[1])
       \/ /\ Len(UidOf(pages)) >= 7
          /\ \/ 2 \in DOMAIN pages /\ fromhex_raises(pages[2])
             \/ /\ HasAll(pages, {133, 134})
                /\ fromhex_raises(pages[133]) \/ fromhex_raises(pages[134])
             \/ /\ HasAll(pages, {130, 131, 132})
                /\ \E n \in {130, 131, 132} : fromhex_raises(pages[n])

check_uid_comprehensive(pages, uid_field) ==
    IF ~HasAll(pages, {0, 1})
    THEN [all_valid |-> FALSE, status |-> "Missing required pages",
          problems |-> AllFalse]
    ELSE IF Len(UidOf(pages)) < 7
    THEN [all_valid |-> FALSE, status |-> "Invalid UID length",
          problems |-> AllFalse]
    ELSE
    LET uid == UidOf(pages)
        uid_field_matches_pages ==
            IF uid_field.some
            THEN Len(uid_field.d) = 7 /\ uid_field.d = uid
            ELSE TRUE
        bcc0_valid ==
            Len(pages[0]) >= 4 /\ pages[0][4] = expected_bcc0(uid)
        bcc1_valid ==
            /\ 2 \in DOMAIN pages
            /\ Len(pages[2]) >= 1
            /\ pages[2][1] = expected_bcc1(uid)
        pwd_pack_checked ==
            /\ HasAll(pages, {133, 134})
            /\ Len(pages[133]) >= 4
            /\ Len(pages[134]) >= 4
        password_valid ==
            /\ pwd_pack_checked
            /\ Take(pages[133], 4) = calculate_password_from_uid(uid)
        pack_valid ==
            pwd_pack_checked /\ Take(pages[134], 4) = correct_pack
        dc == validate_dlb_and_cfg(pages)
        sn3_valid == uid[4] # CT
    IN [all_valid |-> sn3_valid /\ bcc0_valid /\ bcc1_valid /\ password_valid
                      /\ pack_valid /\ dc.all_valid,
        status |-> "checked",
        problems |->
          [uid_field |-> uid_field_matches_pages, sn3 |-> sn3_valid,
           bcc0 |-> bcc0_valid, bcc1 |-> bcc1_valid,
           password |-> password_valid, pack |-> pack_valid,
           dlb |-> dc.dlb, cfg0 |-> dc.cfg0, cfg1 |-> dc.cfg1]]

----------------------------------------------------------------------------
(* Repair planner *)

\* issue_types as initialised, and the {} that the early returns give back
\* (any(issue_types.values()) is false of both)
NoIssues == AllFalse

\* mutant: the replacement byte is drawn but never stored in the UID
fix_uid_not_stored(uid_bytes, new_sn3) ==
    [uid |-> uid_bytes, fixed |-> Len(uid_bytes) >= 4 /\ uid_bytes[4] = CT]

\* new_sn3 is the value random.randint returns once it differs from 0x88
fix_uid_if_sn3_is_88(uid_bytes, new_sn3) ==
    IF Len(uid_bytes) >= 4 /\ uid_bytes[4] = CT
    THEN [uid |-> [uid_bytes EXCEPT ![4] = new_sn3], fixed |-> TRUE]
    ELSE [uid |-> uid_bytes, fixed |-> FALSE]

\* mutant: a field is scheduled without being compared with its correct value
FieldMismatch_uncompared(flag, pages, n, correct) ==
    /\ flag
    /\ n \in DOMAIN pages
    /\ Len(pages[n]) >= 4

\* "if fix_x and n in pages: if len(page) >= 4: if page[:4] != correct"
FieldMismatch(flag, pages, n, correct) ==
    /\ flag
    /\ n \in DOMAIN pages
    /\ Len(pages[n]) >= 4
    /\ Take(pages[n], 4) # correct

\* mutant: BCC1 is scheduled whenever page 2 is there, right or wrong
Bcc1Mismatch_always(flag, pages, correct_bcc1) ==
    /\ flag
    /\ 2 \in DOMAIN pages
    /\ Len(pages[2]) >= 1

Bcc1Mismatch(flag, pages, correct_bcc1) ==
    /\ flag
    /\ 2 \in DOMAIN pages
    /\ Len(pages[2]) >= 1
    /\ pages[2][1] # correct_bcc1

\* changes_made: the descriptions in the order they are appended
ChangeList(it) ==
    (IF it.uid_field THEN <<"UID field">> ELSE <<>>) \o
    (IF it.sn3 THEN <<"SN3">> ELSE <<>>) \o
    (IF it.bcc0 THEN <<"BCC0">> ELSE <<>>) \o
    (IF it.bcc1 THEN <<"BCC1">> ELSE <<>>) \o
    (IF it.password THEN <<"Password">> ELSE <<>>) \o
    (IF it.pack THEN <<"PACK">> ELSE <<>>) \o
    (IF it.dlb THEN <<"DLB">> ELSE <<>>) \o
    (IF it.cfg0 THEN <<"CFG0">> ELSE <<>>) \o
    (IF it.cfg1 THEN <<"CFG1">> ELSE <<>>)

\* "if fix_x and n in pages: page_bytes = bytes.fromhex(pages[n])" raises
PlanFromhexRaises(pages, o) ==
    \/ o.fix_bcc /\ 2 \in DOMAIN pages /\ fromhex_raises(pages[2])
    \/ o.fix_password /\ 133 \in DOMAIN pages /\ fromhex_raises(pages[133])
    \/ o.fix_pack /\ 134 \in DOMAIN pages /\ fromhex_raises(pages[134])
    \/ o.fix_dlb /\ 130 \in DOMAIN pages /\ fromhex_raises(pages[130])
    \/ o.fix_cfg /\ 131 \in DOMAIN pages /\ fromhex_raises(pages[131])
    \/ o.fix_cfg /\ 132 \in DOMAIN pages /\ fromhex_raises(pages[132])

\* fix_nfc_file up to "if not changes_made".  raised = TRUE: the unpacking
\* sn0, ..., sn6 = uid_bytes raises ValueError (the UID has not 7 bytes), or
\* one of the bytes.fromhex calls does
nfc_plan(pages, uid_field, o, new_sn3) ==
    LET uid0 == UidOf(pages)
        uid_field_issue ==
            /\ o.fix_uid
            /\ uid_field.some
            /\ Len(uid_field.d) = 7
            /\ uid_field.d # uid0
        r == IF o.fix_uid THEN fix_uid_if_sn3_is_88(uid0, new_sn3)
             ELSE [uid |-> uid0, fixed |-> FALSE]
        uid == r.uid
    IN IF \/ fromhex_raises(pages[0]) \/ fromhex_raises(pages[1])
          \/ Len(uid) # 7
          \/ PlanFromhexRaises(pages, o)
       THEN [raised |-> TRUE, uid |-> uid, issue_types |-> NoIssues,
             bcc0 |-> 0, bcc1 |-> 0, password |-> <<>>]
       ELSE
       LET correct_bcc0 == expected_bcc0(uid)
           correct_bcc1 == expected_bcc1(uid)
           current_bcc0 == IF Len(pages[0]) >= 4 THEN pages[0][4] ELSE 0
           correct_password == calculate_password_from_uid(uid)
       IN [raised |-> FALSE, uid |-> uid,
           issue_types |->
             [uid_field |-> uid_field_issue,
              sn3 |-> r.fixed,
              bcc0 |-> o.fix_bcc /\ current_bcc0 # correct_bcc0,
              bcc1 |-> Bcc1Mismatch(o.fix_bcc, pages, correct_bcc1),
              password |->
                FieldMismatch(o.fix_password, pages, 133, correct_password),
              pack |-> FieldMismatch(o.fix_pack, pages, 134, correct_pack),
              dlb |-> FieldMismatch(o.fix_dlb, pages, 130, correct_dlb),
              cfg0 |-> FieldMismatch(o.fix_cfg, pages, 131, correct_cfg0),
              cfg1 |-> FieldMismatch(o.fix_cfg, pages, 132, correct_cfg1)],
           bcc0 |-> correct_bcc0, bcc1 |-> correct_bcc1,
           password |-> correct_password]

\* fix_bin_file up to "if not changes_made": no UID declaration; page 0 always
\* holds 4 bytes, the file being at least 540 bytes long
bin_plan(pages, o, new_sn3) ==
    LET uid0 == UidOf(pages)
        r == IF o.fix_uid THEN fix_uid_if_sn3_is_88(uid0, new_sn3)
             ELSE [uid |-> uid0, fixed |-> FALSE]
        uid == r.uid
        correct_bcc0 == expected_bcc0(uid)
        correct_bcc1 == expected_bcc1(uid)
        current_bcc0 == pages[0][4]
        correct_password == calculate_password_from_uid(uid)
    IN [raised |-> FALSE, uid |-> uid,
        issue_types |->
          [uid_field |-> FALSE,
           sn3 |-> r.fixed,
           bcc0 |-> o.fix_bcc /\ current_bcc0 # correct_bcc0,
           bcc1 |-> Bcc1Mismatch(o.fix_bcc, pages, correct_bcc1),
           password |->
             FieldMismatch(o.fix_password, pages, 133, correct_password),
           pack |-> FieldMismatch(o.fix_pack, pages, 134, correct_pack),
           dlb |-> FieldMismatch(o.fix_dlb, pages, 130, correct_dlb),
           cfg0 |-> FieldMismatch(o.fix_cfg, pages, 131, correct_cfg0),
           cfg1 |-> FieldMismatch(o.fix_cfg, pages, 132, correct_cfg1)],
        bcc0 |-> correct_bcc0, bcc1 |-> correct_bcc1,
        password |-> correct_password]

----------------------------------------------------------------------------
(* Tag image encoder *)

\* f"Page {n}: {b0:02X} {b1:02X} {b2:02X} {b3:02X}"
PageLine(n, d) == [k |-> "Page", n |-> n, d |-> d, raw |-> FALSE]

\* f"UID: {sn0:02X} ... {sn6:02X}"
UidLine(d) == [k |-> "UID", n |-> 0, d |-> d, raw |-> FALSE]

\* mutant: every tracked page line is rewritten, whatever the flags
RewritesPage_any(n, o) == n \in TrackedPages

\* the branch of the if/elif chain over page_num that rewrites the line
RewritesPage(n, o) ==
    \/ n = 0 /\ (o.fix_uid \/ o.fix_bcc)
    \/ n = 1 /\ o.fix_uid
    \/ n = 2 /\ o.fix_bcc
    \/ n = 130 /\ o.fix_dlb
    \/ n = 131 /\ o.fix_cfg
    \/ n = 132 /\ o.fix_cfg
    \/ n = 133 /\ o.fix_password
    \/ n = 134 /\ o.fix_pack

\* mutant: the page-2 branch keeps only BCC1 and zeroes the three bytes after
NewPageBytes_zero2(n, pages, plan) ==
    CASE n = 0 -> Take(plan.uid, 3) \o <<plan.bcc0>>
      [] n = 1 -> SubSeq(plan.uid, 4, 7)
      [] n = 2 -> <<plan.bcc1, 0, 0, 0>>
      [] n = 130 -> correct_dlb
      [] n = 131 -> correct_cfg0
      [] n = 132 -> correct_cfg1
      [] n = 133 -> plan.password
      [] n = 134 -> correct_pack

\* the bytes that branch formats into the new line
NewPageBytes(n, pages, plan) ==
    CASE n = 0 -> Take(plan.uid, 3) \o <<plan.bcc0>>
      [] n = 1 -> SubSeq(plan.uid, 4, 7)
      [] n = 2 -> <<plan.bcc1>> \o SubSeq(pages[2], 2, 4)
      [] n = 130 -> correct_dlb
      [] n = 131 -> correct_cfg0
      [] n = 132 -> correct_cfg1
      [] n = 133 -> plan.password
      [] n = 134 -> correct_pack

\* one iteration of the loop over lines of fix_nfc_file
nfc_new_line(line, pages, o, plan) ==
    IF line.k = "UID" /\ o.fix_uid THEN UidLine(plan.uid)
    ELSE IF line.k = "Page" /\ RewritesPage(line.n, o)
    THEN PageLine(line.n, NewPageBytes(line.n, pages, plan))
    ELSE line

\* page2_bytes[1], [2], [3] raise IndexError when page 2 is shorter
nfc_encode_raises(lines, pages, o) ==
    /\ o.fix_bcc
    /\ PageLineIdx(lines, 2) # {}
    /\ Len(pages[2]) < 4

nfc_new_lines(lines, pages, o, plan) ==
    [i \in 1..Len(lines) |-> nfc_new_line(lines[i], pages, o, plan)]

\* mutant: the slice is written one byte further on
SetBytes_shifted(data, a, v) ==
    SubSeq(data, 1, a + 1) \o v \o SubSeq(data, a + Len(v) + 2, Len(data))

\* new_data[a : a + len(v)] = v, a an offset of the file
SetBytes(data, a, v) ==
    SubSeq(data, 1, a) \o v \o SubSeq(data, a + Len(v) + 1, Len(data))

\* new_data = bytearray(original_data) and the assignments to it, in order
bin_new_data(data, pages, o, plan) ==
    LET d1 == IF o.fix_uid THEN SetBytes(data, 0, Take(plan.uid, 3)) ELSE data
        d2 == IF o.fix_bcc THEN SetBytes(d1, 3, <<plan.bcc0>>) ELSE d1
        d3 == IF o.fix_uid THEN SetBytes(d2, 4, SubSeq(plan.uid, 4, 7)) ELSE d2
        d4 == IF o.fix_bcc /\ 2 \in DOMAIN pages
              THEN SetBytes(d3, 8, <<plan.bcc1>>) ELSE d3
        d5 == IF o.fix_dlb /\ 130 \in DOMAIN pages
              THEN SetBytes(d4, 520, correct_dlb) ELSE d4
        d6 == IF o.fix_cfg /\ 131 \in DOMAIN pages
              THEN SetBytes(d5, 524, correct_cfg0) ELSE d5
        d7 == IF o.fix_cfg /\ 132 \in DOMAIN pages
              THEN SetBytes(d6, 528, correct_cfg1) ELSE d6
        d8 == IF o.fix_password /\ 133 \in DOMAIN pages
              THEN SetBytes(d7, 532, plan.password) ELSE d7
    IN IF o.fix_pack /\ 134 \in DOMAIN pages
       THEN SetBytes(d8, 536, correct_pack) ELSE d8

----------------------------------------------------------------------------
(* Repair of one file: what fix_nfc_file / fix_bin_file return and do.      *)
(*   raised   the exception that leaves the function ("" when it returns)   *)
(*   backup   backup_file was called                                        *)
(*   wrote    the file was opened for writing and `content` written         *)

Outcome(ok, msg, it, raised, backup, wrote, content) ==
    [ok |-> ok, msg |-> msg, issue_types |-> it, changes |-> ChangeList(it),
     raised |-> raised, backup |-> backup, wrote |-> wrote,
     content |-> content]

fix_nfc_file(f, o, new_sn3) ==
    LET e == extract_pages_from_nfc(f)
        pages == e.pages
    IN IF pages = NoPages
       THEN Outcome(FALSE, "Could not read file", NoIssues, "", FALSE, FALSE, f)
       ELSE IF ~HasAll(pages, {0, 1})
       THEN Outcome(FALSE, "Missing required pages 0 or 1", NoIssues, "",
                    FALSE, FALSE, f)
       ELSE
       LET plan == nfc_plan(pages, e.uid_field, o, new_sn3)
       IN IF plan.raised
          THEN Outcome(FALSE, "", NoIssues, "ValueError", FALSE, FALSE, f)
          ELSE IF ChangeList(plan.issue_types) = <<>>
          THEN Outcome(TRUE, "No changes needed", NoIssues, "", FALSE, FALSE, f)
          ELSE IF nfc_encode_raises(e.lines, pages, o)
          THEN Outcome(FALSE, "", NoIssues, "IndexError", TRUE, FALSE, f)
          ELSE Outcome(TRUE, "Fixed successfully", plan.issue_types, "", TRUE,
                       TRUE,
                       [f EXCEPT !.lines = nfc_new_lines(e.lines, pages, o, plan)])

fix_bin_file(f, o, new_sn3) ==
    LET pages == extract_pages_from_bin(f)
    IN IF pages = NoPages
       THEN Outcome(FALSE, "Could not read file", NoIssues, "", FALSE, FALSE, f)
       ELSE IF ~HasAll(pages, {0, 1})
       THEN Outcome(FALSE, "Missing required pages 0 or 1", NoIssues, "",
                    FALSE, FALSE, f)
       ELSE
       LET plan == bin_plan(pages, o, new_sn3)
       IN IF ChangeList(plan.issue_types) = <<>>
          THEN Outcome(TRUE, "No changes needed", NoIssues, "", FALSE, FALSE, f)
          ELSE Outcome(TRUE, "Fixed successfully", plan.issue_types, "", TRUE,
                       TRUE,
                       [f EXCEPT !.data = bin_new_data(f.data, pages, o, plan)])

----------------------------------------------------------------------------
(* Backup store *)

\* no backup copy of the path in this run's backup folder
NoFile == [type |-> "none", lines |-> <<>>, data |-> <<>>]

\* mutant: backup_file returns at once, as if every path were tracked already
backup_file_skipped(tracker, bk, files, p, copy_ok) ==
    [tracker |-> tracker, bk |-> bk, copied |-> FALSE]

\* mutant: the tracker is not consulted, every call copies
backup_file_untracked(tracker, bk, files, p, copy_ok) ==
    [tracker |-> tracker \cup {p},
     bk |-> IF copy_ok THEN [bk EXCEPT ![p] = files[p]] ELSE bk,
     copied |-> copy_ok]

\* mutant: a call for a tracked path refreshes the copy
backup_file_refreshing(tracker, bk, files, p, copy_ok) ==
    [tracker |-> tracker \cup {p},
     bk |-> IF copy_ok THEN [bk EXCEPT ![p] = files[p]] ELSE bk,
     copied |-> copy_ok /\ p \notin tracker]

\* backup_file: the tracker and the backup folder after the call.  copy_ok =
\* FALSE: mkdir or shutil.copy2 raises, the exception is caught and None is
\* returned; the path has been added to the tracker before
backup_file(tracker, bk, files, p, copy_ok) ==
    IF p \in tracker
    THEN [tracker |-> tracker, bk |-> bk, copied |-> FALSE]
    ELSE [tracker |-> tracker \cup {p},
          bk |-> IF copy_ok THEN [bk EXCEPT ![p] = files[p]] ELSE bk,
          copied |-> copy_ok]

----------------------------------------------------------------------------
(* Inputs: the images the checks run over *)

\* bounds of the model
MaxDefects == 1
MaxCalls == 2

\* 04 AB 73 54 B8 B6 0F, and the same UID with the cascade tag in SN3
UidSet == { <<4, 171, 115, 84, 184, 182, 15>>,
            <<4, 171, 115, 136, 184, 182, 15>> }

\* values of random.randint(0, 255) other than 0x88
NewSn3Set == {84, 255}

\* a byte other than b
Other(b) == (b + 1) % 256

Bump1(d) == [d EXCEPT ![1] = Other(d[1])]

\* what can be wrong with an image
ValueDefects == {"bcc0", "bcc1", "password", "pack", "dlb", "cfg0", "cfg1"}
TextDefects ==
    ValueDefects \cup
    {"no0", "no2", "no130", "no133", "no134",
     "short0", "short1", "short2", "short133",
     "uid_absent", "uid_mismatch", "uid_short", "raw130", "raw_uid"}

\* the end-to-end image (wrong BCC0/BCC1 and PACK), and every field wrong
Scenarios == {{"bcc0", "bcc1", "pack"}, ValueDefects}

\* the sets of at most k defects among Tags, and the scenarios
DefectSets(Tags, k) ==
    {D \in SUBSET Tags : Cardinality(D) <= k} \cup Scenarios

\* the values a valid image of uid holds
GoodBcc0(uid) == Xor(136, Xor(uid[1], Xor(uid[2], uid[3])))
GoodBcc1(uid) == Xor(uid[4], Xor(uid[5], Xor(uid[6], uid[7])))
GoodPassword(uid) ==
    <<Xor(170, Xor(uid[2], uid[4])), Xor(85, Xor(uid[3], uid[5])),
      Xor(170, Xor(uid[4], uid[6])), Xor(85, Xor(uid[5], uid[7]))>>

\* the 4 bytes of page n of the image of uid with the defects D
PageBytes(uid, D, n) ==
    CASE n = 0 -> <<uid[1], uid[2], uid[3],
                    IF "bcc0" \in D THEN Other(GoodBcc0(uid))
                    ELSE GoodBcc0(uid)>>
      [] n = 1 -> SubSeq(uid, 4, 7)
      [] n = 2 -> <<IF "bcc1" \in D THEN Other(GoodBcc1(uid))
                    ELSE GoodBcc1(uid), 72, 15, 224>>
      [] n = 3 -> <<241, 16, 255, 238>>
      [] n = 130 -> IF "dlb" \in D THEN <<2, 0, 15, 191>> ELSE <<1, 0, 15, 191>>
      [] n = 131 -> IF "cfg0" \in D THEN <<1, 0, 0, 4>> ELSE <<0, 0, 0, 4>>
      [] n = 132 -> IF "cfg1" \in D THEN <<96, 0, 0, 0>> ELSE <<95, 0, 0, 0>>
      [] n = 133 -> IF "password" \in D THEN Bump1(GoodPassword(uid))
                    ELSE GoodPassword(uid)
      [] n = 134 -> IF "pack" \in D THEN <<129, 128, 0, 0>>
                    ELSE <<128, 128, 0, 0>>

OtherLine(n) == [k |-> "Other", n |-> n, d |-> <<>>, raw |-> FALSE]
VersionLine(v) == [k |-> "Version", n |-> v, d |-> <<>>, raw |-> FALSE]

TextPageLine(uid, D, n) ==
    LET b == PageBytes(uid, D, n)
        short == \/ n = 0 /\ "short0" \in D
                 \/ n = 1 /\ "short1" \in D
                 \/ n = 2 /\ "short2" \in D
                 \/ n = 133 /\ "short133" \in D
        odd == n = 0 /\ "odd0" \in D
    IN [k |-> "Page", n |-> n,
        d |-> IF short THEN Take(b, 3)
              ELSE IF odd THEN Take(b, 3) \o <<256 + (b[4] \div 16)>>
              ELSE b,
        raw |-> n = 130 /\ "raw130" \in D]

PageOrder == <<0, 1, 2, 3, 130, 131, 132, 133, 134>>

PagePresent(D, n) ==
    ~ \/ n = 0 /\ "no0" \in D
      \/ n = 2 /\ "no2" \in D
      \/ n = 130 /\ "no130" \in D
      \/ n = 133 /\ "no133" \in D
      \/ n = 134 /\ "no134" \in D

RECURSIVE TextPageLines(_, _, _)
TextPageLines(uid, D, i) ==
    IF i > Len(PageOrder) THEN <<>>
    ELSE (IF PagePresent(D, PageOrder[i])
          THEN <<TextPageLine(uid, D, PageOrder[i])>> ELSE <<>>)
         \o TextPageLines(uid, D, i + 1)

\* a Flipper text dump: Filetype, Version, UID, the pages, the trailing line
TextFile(uid, D, version) ==
    [type |-> "nfc",
     lines |->
        <<OtherLine(1)>> \o
        (IF version = NoVersion THEN <<>> ELSE <<VersionLine(version)>>) \o
        (IF "uid_absent" \in D THEN <<>>
         ELSE <<[k |-> "UID", n |-> 0,
                 d |-> IF "uid_mismatch" \in D
                       THEN [uid EXCEPT ![7] = Other(uid[7])]
                       ELSE IF "uid_short" \in D THEN Take(uid, 4) ELSE uid,
                 raw |-> "raw_uid" \in D]>>) \o
        TextPageLines(uid, D, 1) \o
        <<OtherLine(2)>>,
     data |-> <<>>]

\* a text dump of the given version with Page lines for the pages of P only
TextFileWith(uid, D, version, P) ==
    LET InP(n) == n \in P
        order == SelectSeq(PageOrder, InP)
    IN [type |-> "nfc",
        lines |->
           <<OtherLine(1)>> \o
           (IF version = NoVersion THEN <<>> ELSE <<VersionLine(version)>>) \o
           <<UidLine(uid)>> \o
           [i \in 1..Len(order) |-> TextPageLine(uid, D, order[i])] \o
           <<OtherLine(2)>>,
        data |-> <<>>]

\* the byte at offset o of a raw dump outside the pages set below
Filler(o) == 1 + (o % 250)

BinFile(uid, D, len) ==
    [type |-> "bin", lines |-> <<>>,
     data |-> [i \in 1..len |->
                 LET o == i - 1
                     n == o \div 4
                 IN IF n \in TrackedPages
                    THEN PageBytes(uid, D, n)[(o % 4) + 1]
                    ELSE Filler(o)]]

BinLens == {540, 544}

FixInputs ==
    {TextFile(u, D, 4) : u \in UidSet, D \in DefectSets(TextDefects, MaxDefects)}
    \cup
    UNION {{BinFile(u, D, len) : u \in UidSet,
                                 D \in DefectSets(ValueDefects, MaxDefects)}
           : len \in BinLens}

FixFlags == {"fix_uid", "fix_bcc", "fix_password", "fix_pack", "fix_dlb", "fix_cfg"}

MkOpts(on, convert, dry) ==
    [fix_uid |-> "fix_uid" \in on, fix_bcc |-> "fix_bcc" \in on,
     fix_password |-> "fix_password" \in on, fix_pack |-> "fix_pack" \in on,
     fix_dlb |-> "fix_dlb" \in on, fix_cfg |-> "fix_cfg" \in on,
     convert_to_v4 |-> convert, dry_run |-> dry]

NoDiag == [all_valid |-> FALSE, status |-> "", problems |-> AllFalse]

\* the loop body's locals before a file is taken up
NoJob == [was_converted |-> FALSE, new_sn3 |-> 0]

----------------------------------------------------------------------------
(* Version upgrade of a text file *)

\* the UID written when pages 0 or 1 are absent: "04 AB 73 54 B8 B6 0F"
FallbackUid == <<4, 171, 115, 84, 184, 182, 15>>

\* page_count when no page was parsed
DefaultPageCount == 135

\* the lines of the V4 boilerplate before the page table
HeaderLen == 22

\* mutant: the pages are counted instead of taking the highest page number
Max_counted(S) == Cardinality(S) - 1

Max(S) == CHOOSE m \in S : \A k \in S : k <= m

\* mutant: "Pages total" and "Pages read" always say 135
V4HeaderLine_total_135(i, uid, page_count) ==
    CASE i = 2 -> [k |-> "Version", n |-> 4, d |-> <<>>, raw |-> FALSE]
      [] i = 6 -> UidLine(uid)
      [] i \in {21, 22} ->
           [k |-> "Other", n |-> 100 + i, d |-> <<135>>, raw |-> FALSE]
      [] OTHER -> [k |-> "Other", n |-> 100 + i, d |-> <<>>, raw |-> FALSE]

\* line i of the V4 boilerplate: line 2 is "Version: 4", line 6 the UID
\* declaration, lines 21 and 22 are "Pages total" and "Pages read"
V4HeaderLine(i, uid, page_count) ==
    CASE i = 2 -> [k |-> "Version", n |-> 4, d |-> <<>>, raw |-> FALSE]
      [] i = 6 -> UidLine(uid)
      [] i \in {21, 22} ->
           [k |-> "Other", n |-> 100 + i, d |-> <<page_count>>, raw |-> FALSE]
      [] OTHER -> [k |-> "Other", n |-> 100 + i, d |-> <<>>, raw |-> FALSE]

\* mutant: the UID line always carries the fallback UID
convert_to_v4_format_fixed_uid(pages) ==
    LET page_count == IF DOMAIN pages = {} THEN DefaultPageCount
                      ELSE Max(DOMAIN pages) + 1
    IN [i \in 1..HeaderLen |-> V4HeaderLine(i, FallbackUid, page_count)]
       \o [i \in 1..page_count |->
             PageLine(i - 1, IF (i - 1) \in DOMAIN pages THEN pages[i - 1]
                             ELSE <<0, 0, 0, 0>>)]
       \o << [k |-> "Other", n |-> 123, d |-> <<>>, raw |-> FALSE],
             [k |-> "Other", n |-> 0, d |-> <<>>, raw |-> FALSE] >>

\* the lines of the V4 document, as split('\n') reads them back
convert_to_v4_format(pages) ==
    LET uid == IF HasAll(pages, {0, 1}) THEN UidOf(pages) ELSE FallbackUid
        page_count == IF DOMAIN pages = {} THEN DefaultPageCount
                      ELSE Max(DOMAIN pages) + 1
    IN [i \in 1..HeaderLen |-> V4HeaderLine(i, uid, page_count)]
       \o [i \in 1..page_count |->
             PageLine(i - 1, IF (i - 1) \in DOMAIN pages THEN pages[i - 1]
                             ELSE <<0, 0, 0, 0>>)]
       \o << [k |-> "Other", n |-> 123, d |-> <<>>, raw |-> FALSE],
             [k |-> "Other", n |-> 0, d |-> <<>>, raw |-> FALSE] >>

\* convert_to_v4_format raises ValueError: bytes.fromhex of page 0 or page 1
convert_raises(pages) ==
    /\ HasAll(pages, {0, 1})
    /\ fromhex_raises(pages[0]) \/ fromhex_raises(pages[1])

\* mutant: the version is not looked at, every file is rewritten
convert_nfc_to_v4_any_version(f) ==
    [ok |-> TRUE, msg |-> "Converted to V4", version_conversion |-> TRUE,
     backup |-> TRUE, wrote |-> TRUE,
     content |-> [f EXCEPT !.lines = convert_to_v4_format(nfc_pages(f.lines))]]

\* convert_nfc_to_v4: what it returns and does.  An exception of
\* convert_to_v4_format is caught after backup_file has been called
convert_nfc_to_v4(f) ==
    LET version == nfc_version(f.lines)
    IN IF version = 4
       THEN [ok |-> TRUE, msg |-> "Already V4", version_conversion |-> FALSE,
             backup |-> FALSE, wrote |-> FALSE, content |-> f]
       ELSE IF version \notin {2, 3}
       THEN [ok |-> FALSE, msg |-> "Unsupported version",
             version_conversion |-> FALSE, backup |-> FALSE, wrote |-> FALSE,
             content |-> f]
       ELSE IF convert_raises(nfc_pages(f.lines))
       THEN [ok |-> FALSE, msg |-> "Error converting file",
             version_conversion |-> FALSE, backup |-> TRUE, wrote |-> FALSE,
             content |-> f]
       ELSE [ok |-> TRUE, msg |-> "Converted to V4", version_conversion |-> TRUE,
             backup |-> TRUE, wrote |-> TRUE,
             content |->
               [f EXCEPT !.lines = convert_to_v4_format(nfc_pages(f.lines))]]

----------------------------------------------------------------------------
(* SpecFix: fix_nfc_file / fix_bin_file called on one file, MaxCalls times  *)
(* in a row with the same flags and the same backup tracker                 *)

InitFix ==
    /\ \E f \in FixInputs : fs = <<f>>
    /\ fs0 = fs
    /\ job = NoJob
    /\ log = <<>>
    /\ backups = <<NoFile>>
    /\ backup_tracker = {}
    /\ \E on \in SUBSET FixFlags : opts = MkOpts(on, FALSE, FALSE)
    /\ pc = "repair"
    /\ cur = 1
    /\ all_files = <<>>
    /\ calls = <<>>
    /\ diag = NoDiag

\* the values random.randint may return to the repair of f: it is called
\* only when fix_uid is set and SN3 is 0x88 (0 stands for "not called")
Sn3Draws(f, o) ==
    LET pages == IF f.type = "nfc" THEN nfc_pages(f.lines)
                 ELSE extract_pages_from_bin(f)
    IN IF /\ o.fix_uid
          /\ HasAll(pages, {0, 1})
          /\ Len(UidOf(pages)) >= 4
          /\ UidOf(pages)[4] = CT
       THEN NewSn3Set
       ELSE {0}

\* what may become of the copy in backup_file, when the repair calls it
CopyResults(out) == IF out.backup THEN BOOLEAN ELSE {FALSE}

\* the state after the call with outcome out
DoRepair(p, out, copy_ok, new_sn3) ==
    LET b == IF out.backup
             THEN backup_file(backup_tracker, backups, fs, p, copy_ok)
             ELSE [tracker |-> backup_tracker, bk |-> backups, copied |-> FALSE]
    IN /\ backup_tracker' = b.tracker
       /\ backups' = b.bk
       /\ fs' = IF out.wrote THEN [fs EXCEPT ![p] = out.content] ELSE fs
       /\ calls' = Append(calls,
             [path |-> p, pre |-> fs[p], post |-> fs'[p], ok |-> out.ok,
              msg |-> out.msg, issue_types |-> out.issue_types,
              changes |-> out.changes, raised |-> out.raised,
              backup |-> out.backup, wrote |-> out.wrote,
              copied |-> b.copied,
              drawn |-> IF out.issue_types.sn3 THEN <<new_sn3>> ELSE <<>>])

FixNfc ==
    /\ pc = "repair"
    /\ Len(calls) < MaxCalls
    /\ fs[cur].type = "nfc"
    /\ \E new_sn3 \in Sn3Draws(fs[cur], opts) :
         \E out \in {fix_nfc_file(fs[cur], opts, new_sn3)} :
          \E copy_ok \in CopyResults(out) :
            /\ DoRepair(cur, out, copy_ok, new_sn3)
            /\ pc' = IF out.raised # "" THEN "crashed" ELSE pc
    /\ UNCHANGED <<fs0, opts, cur, job, all_files, log, diag>>

FixBin ==
    /\ pc = "repair"
    /\ Len(calls) < MaxCalls
    /\ fs[cur].type = "bin"
    /\ \E new_sn3 \in Sn3Draws(fs[cur], opts) :
         \E out \in {fix_bin_file(fs[cur], opts, new_sn3)} :
          \E copy_ok \in CopyResults(out) :
            /\ DoRepair(cur, out, copy_ok, new_sn3)
            /\ pc' = IF out.raised # "" THEN "crashed" ELSE pc
    /\ UNCHANGED <<fs0, opts, cur, job, all_files, log, diag>>

NextFix == FixNfc \/ FixBin

SpecFix == InitFix /\ [][NextFix]_vars

----------------------------------------------------------------------------
(* Reading a file back, as the scan does before and after a repair *)

PagesOfFile(f) ==
    IF f.type = "nfc" THEN nfc_pages(f.lines) ELSE extract_pages_from_bin(f)

UidFieldOfFile(f) ==
    IF f.type = "nfc" THEN nfc_uid_field(f.lines) ELSE NoUid

Validate(f) == check_uid_comprehensive(PagesOfFile(f), UidFieldOfFile(f))

\* the bytes of page n, <<>> when the page is absent
PageOr(f, n) ==
    LET p == PagesOfFile(f)
    IN IF n \in DOMAIN p THEN p[n] ELSE <<>>

\* the seven UID bytes of pages 0-1, <<>> when a page is absent
StoredUid(f) ==
    LET p == PagesOfFile(f)
    IN IF HasAll(p, {0, 1}) THEN UidOf(p) ELSE <<>>

\* every page the image holds has exactly 4 bytes
WellFormed(f) ==
    LET p == PagesOfFile(f)
    IN \A n \in DOMAIN p : Len(p[n]) = 4

\* all eight tracked pages are present, with 4 bytes each
Complete(f) ==
    LET p == PagesOfFile(f)
    IN /\ TrackedPages \subseteq DOMAIN p
       /\ \A n \in TrackedPages : Len(p[n]) = 4

HasUid(f) ==
    LET p == PagesOfFile(f)
    IN HasAll(p, {0, 1}) /\ Len(UidOf(p)) = 7

AllOn(o) ==
    o.fix_uid /\ o.fix_bcc /\ o.fix_password /\ o.fix_pack /\ o.fix_dlb
    /\ o.fix_cfg

IsUidLine(l) == l.k = "UID"

\* the UID declaration lines of a text file
UidLines(f) == SelectSeq(f.lines, IsUidLine)

\* the repair call just made.  Every call of a behaviour is the call just
\* made in the state it leads to, so an invariant about it is a statement
\* about every call.
Calls == IF calls = <<>> THEN {} ELSE {calls[Len(calls)]}

----------------------------------------------------------------------------
(* Spec: one run of scan_and_fix_directory over a directory.  The loop body *)
(* is taken step by step: backup and write are steps of their own.          *)

\* bound of the model: the files of the directory
MaxFiles == 2

\* 04 AB 73 54 B8 B6 0F and the same UID with SN3 = 0x88
Uid1 == <<4, 171, 115, 84, 184, 182, 15>>
Uid88 == <<4, 171, 115, 136, 184, 182, 15>>

RunNfcFiles ==
    { TextFile(Uid1, {}, 4), TextFile(Uid1, {"pack"}, 4),
      TextFile(Uid88, {"bcc0", "bcc1", "pack"}, 4),
      TextFile(Uid1, {"uid_mismatch"}, 4),
      TextFile(Uid1, {"short2", "pack"}, 4), TextFile(Uid1, {"short1"}, 4),
      TextFile(Uid1, {"no0"}, 4), TextFile(Uid1, {"odd0"}, 4),
      TextFile(Uid1, {}, 2), TextFile(Uid1, {"pack"}, 3),
      TextFile(Uid1, {"pack"}, 1) }

RunBinFiles ==
    { BinFile(Uid1, {}, 540), BinFile(Uid1, {"pack"}, 544),
      BinFile(Uid88, {"bcc0", "bcc1", "pack"}, 540), BinFile(Uid1, {}, 539) }

\* rglob('*.nfc') is exhausted before rglob('*.bin') starts
NfcBeforeBin(d) ==
    \A i, j \in 1..Len(d) :
       (i < j) => ~(d[i].type = "bin" /\ d[j].type = "nfc")

Directories ==
    {d \in UNION {[1..n -> RunNfcFiles \cup RunBinFiles] : n \in 0..MaxFiles} :
       NfcBeforeBin(d)}

RunFlagSets == {FixFlags, FixFlags \ {"fix_uid"}, {}}

RunOpts ==
    {MkOpts(on, cv, dry) : on \in RunFlagSets, cv \in BOOLEAN, dry \in BOOLEAN}

\* mutant: the loop body never takes its dry-run branch
IsDryRun_never(o) == FALSE

\* "if dry_run:" of the loop body
IsDryRun(o) == o.dry_run

\* mutant: every file is passed to the repair
needs_repair_always(d) == TRUE

\* "if not is_valid:" of the loop body
needs_repair(d) == ~d.all_valid

needs_conversion(o, f) ==
    o.convert_to_v4 /\ f.type = "nfc" /\ nfc_version(f.lines) \in {2, 3}

\* the dict appended to all_files
FileRecord(p, f, d, was_fixed, was_converted, would_convert) ==
    [path |-> p, is_valid |-> d.all_valid, status |-> d.status,
     would_convert |-> would_convert, problems |-> d.problems,
     was_fixed |-> was_fixed, was_converted |-> was_converted,
     file_type |-> f.type,
     version |-> IF f.type = "nfc" THEN nfc_version(f.lines) ELSE NoVersion]

Call(op, p) == [op |-> op, path |-> p, io_ok |-> TRUE, copied |-> FALSE]

\* a call of backup_file: io_ok says whether mkdir and copy2 can succeed,
\* copied whether the copy was made
BackupCall(p, copy_ok, b) ==
    [op |-> "backup_file", path |-> p, io_ok |-> copy_ok, copied |-> b.copied]

InitRun ==
    /\ fs \in Directories
    /\ fs0 = fs
    /\ backups = [p \in 1..Len(fs) |-> NoFile]
    /\ backup_tracker = {}
    /\ opts \in RunOpts
    /\ pc = "scan"
    /\ cur = 1
    /\ job = NoJob
    /\ all_files = <<>>
    /\ log = <<>>
    /\ calls = <<>>
    /\ diag = NoDiag

\* the file is done: its record is appended and the loop goes on
NextFile(f, d, was_fixed, would_convert) ==
    /\ all_files' = Append(all_files,
          FileRecord(cur, f, d, was_fixed, job.was_converted, would_convert))
    /\ cur' = cur + 1
    /\ job' = NoJob
    /\ pc' = "scan"

\* dry run: the file is read and validated, nothing else
ScanDryRun ==
    /\ pc = "scan" /\ cur <= Len(fs)
    /\ IsDryRun(opts)
    /\ ~check_raises(PagesOfFile(fs[cur]))
    /\ diag' = Validate(fs[cur])
    /\ NextFile(fs[cur], diag', FALSE, needs_conversion(opts, fs[cur]))
    /\ UNCHANGED <<fs, fs0, backups, backup_tracker, opts, log, calls>>

\* convert_nfc_to_v4 up to and including its call of backup_file
ConvertBackup ==
    /\ pc = "scan" /\ cur <= Len(fs)
    /\ ~IsDryRun(opts)
    /\ ~check_raises(PagesOfFile(fs[cur]))
    /\ needs_conversion(opts, fs[cur])
    /\ convert_nfc_to_v4(fs[cur]).backup
    /\ \E copy_ok \in BOOLEAN :
         \E b \in {backup_file(backup_tracker, backups, fs, cur, copy_ok)} :
            /\ backup_tracker' = b.tracker
            /\ backups' = b.bk
            /\ log' = log \o <<Call("convert_nfc_to_v4", cur),
                                BackupCall(cur, copy_ok, b)>>
    /\ pc' = "convert_write"
    /\ UNCHANGED <<fs, fs0, opts, cur, job, all_files, calls, diag>>

\* convert_nfc_to_v4 from convert_to_v4_format on: the V4 document is written
ConvertWrite ==
    /\ pc = "convert_write"
    /\ fs' = [fs EXCEPT ![cur] = convert_nfc_to_v4(fs[cur]).content]
    /\ log' = Append(log, Call("write", cur))
    /\ job' = [job EXCEPT !.was_converted = TRUE]
    /\ pc' = "validate"
    /\ UNCHANGED <<fs0, backups, backup_tracker, opts, cur, all_files, calls,
                   diag>>

\* the file as it now is on disk is validated; a valid file is done
ValidateFile ==
    /\ \/ pc = "validate"
       \/ /\ pc = "scan" /\ cur <= Len(fs)
          /\ ~IsDryRun(opts)
          /\ ~needs_conversion(opts, fs[cur])
    /\ ~check_raises(PagesOfFile(fs[cur]))
    /\ diag' = Validate(fs[cur])
    /\ IF needs_repair(diag')
       THEN pc' = "fix" /\ UNCHANGED <<cur, job, all_files>>
       ELSE NextFile(fs[cur], diag', FALSE, FALSE)
    /\ UNCHANGED <<fs, fs0, backups, backup_tracker, opts, log, calls>>

\* check_uid_comprehensive raises; nothing catches the exception
ValidateRaise ==
    /\ \/ pc = "validate"
       \/ pc = "scan" /\ cur <= Len(fs)
    /\ check_raises(PagesOfFile(fs[cur]))
    /\ pc' = "crashed"
    /\ UNCHANGED <<fs, fs0, backups, backup_tracker, opts, cur, job, all_files,
                   log, calls, diag>>

\* fix_nfc_file / fix_bin_file of the file the scan is at
fix_file(f, o, new_sn3) ==
    IF f.type = "nfc" THEN fix_nfc_file(f, o, new_sn3)
    ELSE fix_bin_file(f, o, new_sn3)

FixOp(f) == IF f.type = "nfc" THEN "fix_nfc_file" ELSE "fix_bin_file"

\* the repair returns before backup_file: nothing to read, or nothing to change
FixReturn ==
    /\ pc = "fix"
    /\ \E new_sn3 \in Sn3Draws(fs[cur], opts) :
         \E out \in {fix_file(fs[cur], opts, new_sn3)} :
            out.raised = "" /\ ~out.backup
    /\ log' = Append(log, Call(FixOp(fs[cur]), cur))
    /\ NextFile(fs[cur], diag, FALSE, FALSE)
    /\ UNCHANGED <<fs, fs0, backups, backup_tracker, opts, calls, diag>>

\* the repair raises before backup_file; nothing catches the exception
FixRaise ==
    /\ pc = "fix"
    /\ \E new_sn3 \in Sn3Draws(fs[cur], opts) :
         \E out \in {fix_file(fs[cur], opts, new_sn3)} :
            out.raised # "" /\ ~out.backup
    /\ log' = Append(log, Call(FixOp(fs[cur]), cur))
    /\ pc' = "crashed"
    /\ UNCHANGED <<fs, fs0, backups, backup_tracker, opts, cur, job, all_files,
                   calls, diag>>

\* the repair up to and including its call of backup_file
FixBackup ==
    /\ pc = "fix"
    /\ \E new_sn3 \in Sn3Draws(fs[cur], opts), copy_ok \in BOOLEAN :
         \E out \in {fix_file(fs[cur], opts, new_sn3)} :
            /\ out.backup
            /\ \E b \in {backup_file(backup_tracker, backups, fs, cur, copy_ok)} :
                  /\ backup_tracker' = b.tracker
                  /\ backups' = b.bk
                  /\ log' = log \o <<Call(FixOp(fs[cur]), cur),
                                      BackupCall(cur, copy_ok, b)>>
            /\ job' = [job EXCEPT !.new_sn3 =
                         IF out.issue_types.sn3 THEN new_sn3 ELSE 0]
    /\ pc' = "fix_write"
    /\ UNCHANGED <<fs, fs0, opts, cur, all_files, calls, diag>>

\* the encoder raises after backup_file and before the write
FixEncodeRaise ==
    /\ pc = "fix_write"
    /\ fix_file(fs[cur], opts, job.new_sn3).raised # ""
    /\ pc' = "crashed"
    /\ UNCHANGED <<fs, fs0, backups, backup_tracker, opts, cur, job, all_files,
                   log, calls, diag>>

\* the repaired file is written, read back and validated again
FixWrite ==
    /\ pc = "fix_write"
    /\ \E out \in {fix_file(fs[cur], opts, job.new_sn3)} :
         /\ out.raised = "" /\ out.wrote
         /\ fs' = [fs EXCEPT ![cur] = out.content]
         /\ log' = Append(log, Call("write", cur))
         /\ IF out.ok /\ ChangeList(out.issue_types) # <<>>
            THEN /\ diag' = Validate(out.content)
                 /\ NextFile(out.content, diag', TRUE, FALSE)
            ELSE /\ diag' = diag
                 /\ NextFile(out.content, diag, FALSE, FALSE)
    /\ UNCHANGED <<fs0, backups, backup_tracker, opts, calls>>

\* the loop is over: the report is printed
Finish ==
    /\ pc = "scan" /\ cur > Len(fs)
    /\ pc' = "done"
    /\ UNCHANGED <<fs, fs0, backups, backup_tracker, opts, cur, job, all_files,
                   log, calls, diag>>

Next ==
    \/ ScanDryRun
    \/ ConvertBackup
    \/ ConvertWrite
    \/ ValidateFile
    \/ ValidateRaise
    \/ FixReturn
    \/ FixRaise
    \/ FixBackup
    \/ FixEncodeRaise
    \/ FixWrite
    \/ Finish

Spec == InitRun /\ [][Next]_vars

----------------------------------------------------------------------------
(* C1 *)

\* the positions in the log of the writes, and of the backup_file calls for p
Writes == {i \in 1..Len(log) : log[i].op = "write"}
BackupCalls(p) ==
    {i \in 1..Len(log) : log[i].op = "backup_file" /\ log[i].path = p}

\* the first of a nonempty set of positions
First(S) == CHOOSE i \in S : \A j \in S : i <= j

\* C1 as stated: in mutating mode no state is reachable in which a file has
\* been overwritten (by the version upgrade or by a repair) while no backup
\* copy of it exists for this run.
C1_BackupCopyBeforeWrite ==
    \A p \in 1..Len(fs) :
      (fs[p] # fs0[p] \/ \E i \in Writes : log[i].path = p) =>
         backups[p] # NoFile

\* C1 amended: every write to a file is preceded in the same run by a call
\* of backup_file for that file; the backup copy, if it exists, holds the
\* content the file had when the run started, and it exists unless copying
\* failed in the first backup_file call for the file.
C1_BackupCallBeforeWrite ==
    \A i \in Writes :
      LET p == log[i].path
          B == BackupCalls(p)
      IN /\ ~opts.dry_run
         /\ \E j \in B : j < i
         /\ p \in backup_tracker
         /\ backups[p] \in {NoFile, fs0[p]}
         /\ log[First(B)].io_ok <=> backups[p] = fs0[p]

\* a text file was upgraded to V4 and then repaired, its backup copy holding
\* the original
C1_Witness ==
    \E p \in 1..Len(fs) :
      /\ Cardinality({i \in Writes : log[i].path = p}) = 2
      /\ Cardinality(BackupCalls(p)) = 2
      /\ backups[p] = fs0[p]
      /\ fs[p] # fs0[p]
      /\ pc = "done"

----------------------------------------------------------------------------
(* C2 *)

\* C2: in dry-run mode, whatever the directory holds and whatever the flags
\* are, the scan writes to no file and creates no backup: convert_nfc_to_v4,
\* fix_nfc_file, fix_bin_file and backup_file are not called.
C2_DryRunTouchesNothing ==
    opts.dry_run =>
      /\ fs = fs0
      /\ log = <<>>
      /\ backup_tracker = {}
      /\ \A p \in 1..Len(fs) : backups[p] = NoFile
      /\ pc \in {"scan", "done", "crashed"}
      /\ \A i \in 1..Len(all_files) :
            ~all_files[i].was_fixed /\ ~all_files[i].was_converted

\* a dry run with the V4 upgrade requested has scanned a V2 text file and an
\* invalid file, and is over
C2_Witness ==
    /\ opts.dry_run /\ opts.convert_to_v4 /\ opts.fix_pack
    /\ pc = "done"
    /\ Len(all_files) = 2
    /\ all_files[1].would_convert
    /\ ~all_files[2].is_valid

----------------------------------------------------------------------------
(* SpecCheck: the validator called once on one image, as the scan calls it  *)
(* on each file it finds                                                    *)

\* the values the bytes of the UIDs range over
UidBytes == {0, 136, 255}

CheckUids ==
    {<<a, b, c, d, e, f, g>> : a \in UidBytes, b \in UidBytes, c \in UidBytes,
         d \in UidBytes, e \in UidBytes, f \in UidBytes, g \in UidBytes}

\* the UIDs the raw dumps are built from
BinCheckUids == {u \in CheckUids : u[1] = 0 /\ u[2] = 255 /\ u[6] = 136}

\* the image built from each UID in both formats, the images of the UIDs of
\* UidSet with one defect, with one defect and no UID declaration, and raw
\* dumps one byte too short
\* full dumps but for one page of 130-134
CheckPageSets ==
    {{0, 1, 2, 3, 130, 131, 132, 133, 134} \ {n} : n \in {131, 132, 133, 134}}

CheckInputs ==
    {TextFile(u, {}, 4) : u \in CheckUids}
    \cup
    {BinFile(u, {}, MinBinLen) : u \in BinCheckUids}
    \cup
    {TextFile(u, {t}, 4) : u \in UidSet, t \in TextDefects}
    \cup
    {BinFile(u, {t}, MinBinLen) : u \in UidSet, t \in ValueDefects}
    \cup
    {TextFile(u, {"uid_absent", t}, 4) : u \in UidSet, t \in TextDefects}
    \cup
    {BinFile(u, {}, MinBinLen - 1) : u \in UidSet}
    \cup
    {TextFileWith(u, {}, 4, P) : u \in UidSet, P \in CheckPageSets}

InitCheck ==
    /\ \E f \in CheckInputs : fs = <<f>>
    /\ fs0 = fs
    /\ job = NoJob
    /\ log = <<>>
    /\ backups = <<NoFile>>
    /\ backup_tracker = {}
    /\ opts = MkOpts(FixFlags, FALSE, TRUE)
    /\ pc = "check"
    /\ cur = 1
    /\ all_files = <<>>
    /\ calls = <<>>
    /\ diag = NoDiag

\* check_uid_comprehensive(pages, path, uid_field) on a text file
CheckNfc ==
    /\ pc = "check"
    /\ fs[cur].type = "nfc"
    /\ diag' = LET e == extract_pages_from_nfc(fs[cur])
               IN check_uid_comprehensive(e.pages, e.uid_field)
    /\ pc' = "checked"
    /\ UNCHANGED <<fs, fs0, backups, backup_tracker, opts, cur, job, all_files,
                   log, calls>>

\* check_uid_comprehensive(pages, path) on a raw dump: uid_field = None
CheckBin ==
    /\ pc = "check"
    /\ fs[cur].type = "bin"
    /\ diag' = check_uid_comprehensive(extract_pages_from_bin(fs[cur]), NoUid)
    /\ pc' = "checked"
    /\ UNCHANGED <<fs, fs0, backups, backup_tracker, opts, cur, job, all_files,
                   log, calls>>

NextCheck == CheckNfc \/ CheckBin

SpecCheck == InitCheck /\ [][NextCheck]_vars

----------------------------------------------------------------------------
(* C5 *)

\* the file is the image built from the UID u: page 0 = SN0 SN1 SN2 BCC0,
\* page 1 = SN3..SN6, page 2 byte 0 = BCC1, pages 130-132 the fixed values,
\* page 133 the derived password, page 134 = 80 80 00 00
BuiltFrom(f, u) ==
    LET p == PagesOfFile(f)
    IN /\ TrackedPages \subseteq DOMAIN p
       /\ p[0] = <<u[1], u[2], u[3], GoodBcc0(u)>>
       /\ p[1] = <<u[4], u[5], u[6], u[7]>>
       /\ Len(p[2]) = 4 /\ p[2][1] = GoodBcc1(u)
       /\ p[130] = <<1, 0, 15, 191>>
       /\ p[131] = <<0, 0, 0, 4>>
       /\ p[132] = <<95, 0, 0, 0>>
       /\ p[133] = GoodPassword(u)
       /\ p[134] = <<128, 128, 0, 0>>
       /\ UidFieldOfFile(f).some => UidFieldOfFile(f).d = u

\* C5: for every 7-byte UID whose SN3 is not 0x88, check_uid_comprehensive
\* reports the image built from it all_valid, with every per-field boolean
\* true.
C5_BuiltImageValid ==
    \A u \in {StoredUid(fs[1])} :
      (pc = "checked" /\ Len(u) = 7 /\ u[4] # 136 /\ BuiltFrom(fs[1], u)) =>
         /\ diag.all_valid
         /\ diag.status = "checked"
         /\ \A k \in DOMAIN diag.problems : diag.problems[k]

\* the validator ran on the raw dump built from 00 FF 88 00 FF 88 00
C5_Witness ==
    /\ pc = "checked"
    /\ fs[1].type = "bin"
    /\ BuiltFrom(fs[1], <<0, 255, 136, 0, 255, 136, 0>>)
    /\ diag.all_valid

----------------------------------------------------------------------------
(* C3 *)

\* C3: for every image in which all eight tracked pages are present with 4
\* bytes each, one repair with all six fix flags enabled leaves a file that
\* the validator reports allValid; when SN3 was resampled, pages 0-1 hold
\* the new UID (the old one with SN3 replaced by the drawn value) and the
\* stored BCC1 and password are those derived from the new UID.
C3_RepairYieldsValid ==
    \A c \in Calls :
      (AllOn(opts) /\ Complete(c.pre)) =>
        /\ c.raised = ""
        /\ c.ok
        /\ Validate(c.post).all_valid
        /\ c.issue_types.sn3 =>
             LET u == UidOf(PagesOfFile(c.post))
             IN /\ c.wrote
                /\ u = [UidOf(PagesOfFile(c.pre)) EXCEPT ![4] = c.drawn[1]]
                /\ u[4] # 136
                /\ PageOr(c.post, 0)[4] = GoodBcc0(u)
                /\ PageOr(c.post, 2)[1] = GoodBcc1(u)
                /\ PageOr(c.post, 133) = GoodPassword(u)

\* a text image with SN3 = 0x88 and a wrong PACK was repaired, all flags on
C3_Witness ==
    \E c \in Calls :
      /\ AllOn(opts) /\ Complete(c.pre) /\ c.pre.type = "nfc"
      /\ c.issue_types.sn3 /\ c.issue_types.pack /\ c.wrote
      /\ ~Validate(c.pre).all_valid

----------------------------------------------------------------------------
(* C4 *)

\* the positions of SN0-SN2 and SN4-SN6 in the UID
OtherSn == {1, 2, 3, 5, 6, 7}

\* C4: for every image with pages 0 and 1 present (4 bytes each page) whose
\* SN3 is 0x88, a repair with fix_uid enabled stores a UID whose SN3 differs
\* from 0x88 and whose other six bytes are unchanged; a second repair with the
\* same flags on the result reports "No changes needed", calls backup_file
\* not at all and writes nothing.  (Stated of the last two calls: every pair
\* of successive calls is the last pair in the state the second leads to.)
C4_Sn3RepairIdempotent ==
    \A i \in {Len(calls) - 1, Len(calls)} \cap (1..Len(calls)) :
      LET c == calls[i]
          u0 == UidOf(PagesOfFile(c.pre))
          u1 == UidOf(PagesOfFile(c.post))
      IN (opts.fix_uid /\ HasUid(c.pre) /\ u0[4] = 136 /\ WellFormed(c.pre)) =>
           /\ c.raised = "" /\ c.ok /\ c.wrote /\ c.issue_types.sn3
           /\ Len(u1) = 7
           /\ u1[4] # 136
           /\ \A j \in OtherSn : u1[j] = u0[j]
           /\ i < Len(calls) =>
                LET d == calls[i + 1]
                IN /\ d.pre = c.post
                   /\ d.ok /\ d.msg = "No changes needed"
                   /\ ~d.backup /\ ~d.wrote /\ ~d.copied
                   /\ d.post = d.pre

\* an image with SN3 = 0x88 was repaired and the result repaired again, in
\* the text format with every fix flag enabled
C4_Witness ==
    /\ Len(calls) = 2
    /\ AllOn(opts)
    /\ calls[1].pre.type = "nfc"
    /\ HasUid(calls[1].pre) /\ WellFormed(calls[1].pre)
    /\ UidOf(PagesOfFile(calls[1].pre))[4] = 136
    /\ calls[1].wrote
    /\ calls[2].msg = "No changes needed"

----------------------------------------------------------------------------
(* C6 *)

\* the stored BCC0 byte page0[3] and BCC1 byte page2[0], <<>> when absent
StoredBcc(f) ==
    <<IF Len(PageOr(f, 0)) >= 4 THEN <<PageOr(f, 0)[4]>> ELSE <<>>,
      IF Len(PageOr(f, 2)) >= 1 THEN <<PageOr(f, 2)[1]>> ELSE <<>> >>

\* C6: with fix_bcc disabled, a repair leaves the stored BCC0 byte and the
\* stored BCC1 byte as they were before the repair, in the text format and in
\* the binary format (images whose pages hold 4 bytes each).
C6_BccUntouched ==
    \A c \in Calls :
      (~opts.fix_bcc /\ WellFormed(c.pre)) => StoredBcc(c.post) = StoredBcc(c.pre)

\* C6, the binary format alone: the same statement for raw dumps
C6_BinBccUntouched ==
    \A c \in Calls :
      (~opts.fix_bcc /\ c.pre.type = "bin") =>
         StoredBcc(c.post) = StoredBcc(c.pre)

\* a binary repair with fix_bcc disabled wrote the file of an image whose
\* stored BCC0 was wrong
C6_BinWitness ==
    \E c \in Calls :
      /\ ~opts.fix_bcc /\ c.pre.type = "bin" /\ c.wrote
      /\ ~Validate(c.pre).problems.bcc0

----------------------------------------------------------------------------
(* C7 *)

\* what the file stores of page n: in a text file its Page lines as spelled,
\* in a raw dump the 4 bytes at offset 4 * n
Stored(f, n) ==
    IF f.type = "nfc"
    THEN LET IsPageN(l) == l.k = "Page" /\ l.n = n
         IN SelectSeq(f.lines, IsPageN)
    ELSE <<PageOr(f, n)>>

\* C7: for each of fix_uid, fix_password, fix_pack, fix_dlb and fix_cfg, a
\* repair with that flag disabled leaves the field it governs unchanged,
\* whatever the other flags are, in both formats: fix_uid the seven UID bytes
\* of pages 0-1, page 1 and the UID declaration line; fix_password page 133;
\* fix_pack page 134; fix_dlb page 130; fix_cfg pages 131 and 132.
C7_DisabledFlagsUntouched ==
    \A c \in Calls :
      /\ ~opts.fix_uid =>
            /\ StoredUid(c.post) = StoredUid(c.pre)
            /\ Stored(c.post, 1) = Stored(c.pre, 1)
            /\ UidLines(c.post) = UidLines(c.pre)
      /\ ~opts.fix_password => Stored(c.post, 133) = Stored(c.pre, 133)
      /\ ~opts.fix_pack => Stored(c.post, 134) = Stored(c.pre, 134)
      /\ ~opts.fix_dlb => Stored(c.post, 130) = Stored(c.pre, 130)
      /\ ~opts.fix_cfg =>
            /\ Stored(c.post, 131) = Stored(c.pre, 131)
            /\ Stored(c.post, 132) = Stored(c.pre, 132)

\* a text image in which every field is wrong was rewritten with fix_bcc the
\* only flag enabled
C7_Witness ==
    \E c \in Calls :
      /\ opts.fix_bcc /\ ~opts.fix_uid /\ ~opts.fix_password /\ ~opts.fix_pack
      /\ ~opts.fix_dlb /\ ~opts.fix_cfg
      /\ c.pre.type = "nfc" /\ c.wrote
      /\ LET p == Validate(c.pre).problems
         IN ~p.password /\ ~p.pack /\ ~p.dlb /\ ~p.cfg0 /\ ~p.cfg1

----------------------------------------------------------------------------
(* C8 *)

\* page n is absent before and after, or holds after the repair what it held
\* before unless what it held before differs from `expected`
OnlyIfWrong(c, n, expected) ==
    /\ PageOr(c.post, n) # PageOr(c.pre, n) => PageOr(c.pre, n) # expected
    /\ Len(PageOr(c.post, n)) = Len(PageOr(c.pre, n))

\* the frame of a repair with all flags enabled: a byte of a tracked field
\* has another value after the repair only if the field differed from its
\* expected value, the expected values being those of the UID stored after
\* the repair; the UID bytes other than SN3 and bytes 1-3 of page 2 never
\* change, SN3 changes only from 0x88
FrameAllOn(c) ==
    LET pre == PagesOfFile(c.pre)
        post == PagesOfFile(c.post)
        u0 == UidOf(pre)
        u1 == UidOf(post)
    IN /\ DOMAIN post = DOMAIN pre
       /\ \A j \in OtherSn : u1[j] = u0[j]
       /\ u1[4] # u0[4] => u0[4] = 136
       /\ post[0][4] # pre[0][4] => pre[0][4] # GoodBcc0(u1)
       /\ 2 \in DOMAIN pre =>
             /\ SubSeq(post[2], 2, 4) = SubSeq(pre[2], 2, 4)
             /\ post[2][1] # pre[2][1] => pre[2][1] # GoodBcc1(u1)
       /\ OnlyIfWrong(c, 130, <<1, 0, 15, 191>>)
       /\ OnlyIfWrong(c, 131, <<0, 0, 0, 4>>)
       /\ OnlyIfWrong(c, 132, <<95, 0, 0, 0>>)
       /\ OnlyIfWrong(c, 133, GoodPassword(u1))
       /\ OnlyIfWrong(c, 134, <<128, 128, 0, 0>>)
       /\ Len(UidLines(c.post)) = Len(UidLines(c.pre))
       /\ \A i \in 1..Len(UidLines(c.pre)) :
             UidLines(c.post)[i].d # UidLines(c.pre)[i].d =>
                UidLines(c.pre)[i].d # u1

\* the end-to-end image: SN3 = 0x88, wrong BCC0 and BCC1, wrong PACK, all
\* other fields correct
EndToEnd(f) ==
    LET p == Validate(f).problems
    IN /\ Complete(f)
       /\ ~p.sn3 /\ ~p.bcc0 /\ ~p.bcc1 /\ ~p.pack
       /\ p.uid_field /\ p.password /\ p.dlb /\ p.cfg0 /\ p.cfg1

\* of the end-to-end image pages 130-132 and bytes 1-3 of page 2 hold the
\* same values after the repair, and the file was written
EndToEndFrame(c) ==
    /\ c.wrote
    /\ \A n \in {130, 131, 132} : PageOr(c.post, n) = PageOr(c.pre, n)
    /\ SubSeq(PageOr(c.post, 2), 2, 4) = SubSeq(PageOr(c.pre, 2), 2, 4)
    /\ Validate(c.post).all_valid

\* C8 as stated: the frame of a repair with all flags enabled, and for the
\* end-to-end image the unchanged pages, with a backup copy of the original
\* created whenever the file is rewritten.
C8_FrameAndBackupCreated ==
    \A c \in Calls :
      (AllOn(opts) /\ HasUid(c.pre) /\ WellFormed(c.pre)) =>
        /\ FrameAllOn(c)
        /\ EndToEnd(c.pre) => EndToEndFrame(c)
        /\ c.wrote => c.copied /\ backups[c.path] = c.pre

\* C8 amended: the frame of a repair with all flags enabled, and for the
\* end-to-end image the unchanged pages; whenever the file is rewritten
\* backup_file has been called before, and the backup copy, which exists
\* unless copying failed, holds the content the file had before the rewrite.
C8_FrameAndBackupAttempted ==
    \A c \in Calls :
      (AllOn(opts) /\ HasUid(c.pre) /\ WellFormed(c.pre)) =>
        /\ FrameAllOn(c)
        /\ EndToEnd(c.pre) => EndToEndFrame(c)
        /\ c.wrote =>
             /\ c.backup
             /\ c.path \in backup_tracker
             /\ c.copied => backups[c.path] = c.pre
             /\ ~c.copied => backups[c.path] = NoFile

\* the end-to-end text image was repaired with all flags enabled and its
\* backup copy was made
C8_Witness ==
    \E c \in Calls :
      /\ AllOn(opts) /\ c.pre.type = "nfc" /\ EndToEnd(c.pre)
      /\ c.wrote /\ c.copied
      /\ PageOr(c.post, 134) # PageOr(c.pre, 134)
      /\ PageOr(c.post, 1) # PageOr(c.pre, 1)

----------------------------------------------------------------------------
(* C9 *)

\* the line is one the planner scheduled for change
Scheduled(it, l) ==
    \/ l.k = "UID" /\ (it.uid_field \/ it.sn3)
    \/ l.k = "Page" /\ l.n = 0 /\ it.bcc0
    \/ l.k = "Page" /\ l.n = 1 /\ it.sn3
    \/ l.k = "Page" /\ l.n = 2 /\ it.bcc1
    \/ l.k = "Page" /\ l.n = 130 /\ it.dlb
    \/ l.k = "Page" /\ l.n = 131 /\ it.cfg0
    \/ l.k = "Page" /\ l.n = 132 /\ it.cfg1
    \/ l.k = "Page" /\ l.n = 133 /\ it.password
    \/ l.k = "Page" /\ l.n = 134 /\ it.pack

\* the UID declaration or a Page line of a tracked page
Tracked(l) == l.k = "UID" \/ (l.k = "Page" /\ l.n \in {0, 1, 2, 130, 131, 132, 133, 134})

\* the flag that governs the line is enabled
Governed(o, l) ==
    \/ l.k = "UID" /\ o.fix_uid
    \/ l.k = "Page" /\ l.n = 0 /\ (o.fix_uid \/ o.fix_bcc)
    \/ l.k = "Page" /\ l.n = 1 /\ o.fix_uid
    \/ l.k = "Page" /\ l.n = 2 /\ o.fix_bcc
    \/ l.k = "Page" /\ l.n = 130 /\ o.fix_dlb
    \/ l.k = "Page" /\ l.n \in {131, 132} /\ o.fix_cfg
    \/ l.k = "Page" /\ l.n = 133 /\ o.fix_password
    \/ l.k = "Page" /\ l.n = 134 /\ o.fix_pack

\* C9: the text repair writes back as many lines as it read, in the same
\* order; every line that is neither the UID declaration nor a Page line of
\* a tracked page is written back identical, and so is every line of a
\* tracked page (or the UID declaration) that was not scheduled for change.
C9_LinesPreserved ==
    \A c \in Calls :
      c.pre.type = "nfc" =>
        /\ Len(c.post.lines) = Len(c.pre.lines)
        /\ \A i \in 1..Len(c.pre.lines) :
              /\ c.post.lines[i].k = c.pre.lines[i].k
              /\ c.post.lines[i].n = c.pre.lines[i].n
              /\ ~Scheduled(c.issue_types, c.pre.lines[i]) =>
                    c.post.lines[i] = c.pre.lines[i]

\* C9, the part that holds: as many lines in the same order, and every line
\* that is not tracked, or whose governing flag is disabled, is written back
\* identical.
C9_UngovernedLinesPreserved ==
    \A c \in Calls :
      c.pre.type = "nfc" =>
        /\ Len(c.post.lines) = Len(c.pre.lines)
        /\ \A i \in 1..Len(c.pre.lines) :
              /\ c.post.lines[i].k = c.pre.lines[i].k
              /\ c.post.lines[i].n = c.pre.lines[i].n
              /\ (~Tracked(c.pre.lines[i]) \/ ~Governed(opts, c.pre.lines[i])) =>
                    c.post.lines[i] = c.pre.lines[i]

\* a text file was rewritten with fix_dlb disabled, its Page 130 line spelled
\* other than the program spells it
C9_UngovernedWitness ==
    \E c \in Calls :
      /\ c.pre.type = "nfc" /\ c.wrote /\ ~opts.fix_dlb
      /\ \E i \in 1..Len(c.pre.lines) :
            c.pre.lines[i].k = "Page" /\ c.pre.lines[i].n = 130
            /\ c.pre.lines[i].raw

----------------------------------------------------------------------------
(* C10 *)

\* the offsets of a raw dump the planner scheduled for change
ScheduledOffsets(it) ==
    (IF it.sn3 THEN {4} ELSE {}) \cup
    (IF it.bcc0 THEN {3} ELSE {}) \cup
    (IF it.bcc1 THEN {8} ELSE {}) \cup
    (IF it.dlb THEN 520..523 ELSE {}) \cup
    (IF it.cfg0 THEN 524..527 ELSE {}) \cup
    (IF it.cfg1 THEN 528..531 ELSE {}) \cup
    (IF it.password THEN 532..535 ELSE {}) \cup
    (IF it.pack THEN 536..539 ELSE {})

\* the offsets at which two byte sequences of the same length differ
DiffOffsets(a, b) == {i - 1 : i \in {j \in 1..Len(a) : a[j] # b[j]}}

\* C10: the binary repair writes a buffer of the length of the original in
\* which every byte outside the ranges of the scheduled changes is the
\* original byte; the bytes at offsets 9-519 and from offset 540 on are the
\* same after any repair with any flags.
C10_BinaryBytesPreserved ==
    \A c \in Calls :
      c.pre.type = "bin" =>
        /\ Len(c.post.data) = Len(c.pre.data)
        /\ LET changed == DiffOffsets(c.pre.data, c.post.data)
           IN /\ changed \subseteq ScheduledOffsets(c.issue_types)
              /\ changed \cap (9..519) = {}
              /\ \A o \in changed : o < 540

\* a raw dump longer than 540 bytes in which every field is wrong was
\* rewritten with all flags enabled
C10_Witness ==
    \E c \in Calls :
      /\ c.pre.type = "bin" /\ Len(c.pre.data) > 540 /\ AllOn(opts) /\ c.wrote
      /\ c.issue_types.pack /\ c.issue_types.dlb /\ c.issue_types.bcc1
      /\ DiffOffsets(c.pre.data, c.post.data) # {}

----------------------------------------------------------------------------
(* C11 *)

\* the fix flag that governs each entry of the diagnosis
FlagOn(o, k) ==
    CASE k \in {"uid_field", "sn3"} -> o.fix_uid
      [] k \in {"bcc0", "bcc1"} -> o.fix_bcc
      [] k = "password" -> o.fix_password
      [] k = "pack" -> o.fix_pack
      [] k = "dlb" -> o.fix_dlb
      [] k \in {"cfg0", "cfg1"} -> o.fix_cfg

\* the validator finds nothing wrong in any field whose fix flag is enabled
NoEnabledMismatch(f, o) ==
    LET d == Validate(f)
    IN /\ d.status = "checked"
       /\ \A k \in DOMAIN d.problems : FlagOn(o, k) => d.problems[k]

\* the call left everything as it was
Untouched(c) ==
    /\ ~c.backup /\ ~c.copied /\ ~c.wrote
    /\ c.post = c.pre
    /\ fs[c.path] = c.pre

\* C11: a repair of an image in which no field governed by an enabled flag
\* is mismatched returns success with "No changes needed"; and every repair
\* that returns "No changes needed" has called backup_file not at all and
\* written nothing: the file holds after the call what it held before, in the
\* text format and in the binary format.
C11_NoChangeNoWrite ==
    \A c \in Calls :
      /\ NoEnabledMismatch(c.pre, opts) =>
            c.raised = "" /\ c.ok /\ c.msg = "No changes needed"
      /\ c.msg = "No changes needed" =>
            c.ok /\ c.changes = <<>> /\ Untouched(c)

\* a text image whose only defect is a wrong PACK was repaired with fix_pack
\* disabled and the other flags enabled: nothing was scheduled
C11_Witness ==
    \E c \in Calls :
      /\ c.pre.type = "nfc" /\ ~opts.fix_pack /\ opts.fix_uid /\ opts.fix_bcc
      /\ ~Validate(c.pre).all_valid
      /\ NoEnabledMismatch(c.pre, opts)
      /\ c.msg = "No changes needed"

----------------------------------------------------------------------------
(* C12 *)

\* C12 as stated: no failure in decoding, validating, repairing or upgrading
\* a file aborts the run, whatever the files are: the scan never stops at a
\* file, leaving it and the files after it without a status record.
C12_RunNeverAborts == pc # "crashed"

\* a text file over which the program raises: pages 0 and 1 are there, and a
\* page has an odd number of hex digits, or pages 0-1 do not give the 7 UID
\* bytes, or page 2 holds fewer than 4 bytes
Malformed(f) ==
    LET p == PagesOfFile(f)
    IN /\ f.type = "nfc"
       /\ HasAll(p, {0, 1})
       /\ \/ \E n \in DOMAIN p : fromhex_raises(p[n])
          \/ Len(UidOf(p)) # 7
          \/ 2 \in DOMAIN p /\ Len(p[2]) < 4

\* C12, the part that holds: every file the scan has passed has its status
\* record, in scan order; the run stops only at a malformed text file, in a
\* dry run only at one with an odd number of hex digits in a page, and a run
\* over a directory without malformed text files does not stop before its end.
C12_AbortsOnlyAtMalformed ==
    /\ Len(all_files) = cur - 1
    /\ \A i \in 1..Len(all_files) : all_files[i].path = i
    /\ pc = "crashed" =>
          /\ cur <= Len(fs)
          /\ Malformed(fs[cur])
          /\ opts.dry_run =>
                \E n \in DOMAIN PagesOfFile(fs[cur]) :
                   fromhex_raises(PagesOfFile(fs[cur])[n])
    /\ pc = "done" => Len(all_files) = Len(fs)

\* a mutating run has stopped at the first of two files, a text file whose
\* page 1 holds 3 bytes: neither file has a status record
C12_Witness ==
    /\ pc = "crashed" /\ ~opts.dry_run
    /\ Len(fs) = 2 /\ cur = 1 /\ all_files = <<>>
    /\ Len(PageOr(fs[1], 1)) = 3
    /\ ~Malformed(fs[2])

----------------------------------------------------------------------------
(* SpecConvert: convert_nfc_to_v4 called on one text file, MaxCalls times   *)
(* in a row with the same backup tracker                                    *)

\* the Version lines of the inputs: none, 1..5
ConvertVersions == {NoVersion, 1, 2, 3, 4, 5}

\* the pages of the inputs: none, page 0 only, pages 0 and 1 only, a page
\* table with and without pages 0-1, with gaps, and the nine pages of a full
\* dump
ConvertPageSets ==
    {{}, {0}, {0, 1}, {0, 1, 2, 3}, {3}, {0, 3}, {0, 1, 130},
     {0, 1, 2, 3, 130, 131, 132, 133, 134}}

ConvertDefects == {{}, {"odd0"}, {"short1"}, {"raw130"}, {"pack"}}

ConvertInputs ==
    {TextFileWith(Uid1, D, v, P) :
        D \in ConvertDefects, v \in ConvertVersions, P \in ConvertPageSets}

InitConvert ==
    /\ \E f \in ConvertInputs : fs = <<f>>
    /\ fs0 = fs
    /\ job = NoJob
    /\ log = <<>>
    /\ backups = <<NoFile>>
    /\ backup_tracker = {}
    /\ opts = MkOpts(FixFlags, TRUE, FALSE)
    /\ pc = "convert"
    /\ cur = 1
    /\ all_files = <<>>
    /\ calls = <<>>
    /\ diag = NoDiag

\* convert_nfc_to_v4(filepath, ..., backup_tracker)
ConvertNfc ==
    /\ pc = "convert"
    /\ Len(calls) < MaxCalls
    /\ \E out \in {convert_nfc_to_v4(fs[cur])} :
        \E copy_ok \in CopyResults(out) :
          LET b == IF out.backup
                   THEN backup_file(backup_tracker, backups, fs, cur, copy_ok)
                   ELSE [tracker |-> backup_tracker, bk |-> backups,
                         copied |-> FALSE]
          IN /\ backup_tracker' = b.tracker
             /\ backups' = b.bk
             /\ fs' = IF out.wrote THEN [fs EXCEPT ![cur] = out.content] ELSE fs
             /\ calls' = Append(calls,
                   [path |-> cur, pre |-> fs[cur], post |-> fs'[cur],
                    ok |-> out.ok, msg |-> out.msg,
                    version_conversion |-> out.version_conversion,
                    backup |-> out.backup, wrote |-> out.wrote,
                    copied |-> b.copied])
    /\ UNCHANGED <<fs0, opts, pc, cur, job, all_files, log, diag>>

NextConvert == ConvertNfc

SpecConvert == InitConvert /\ [][NextConvert]_vars

----------------------------------------------------------------------------
(* C13 *)

IsPageLine(l) == l.k = "Page"

\* the Page lines of a text file, in file order
PageLines(f) == SelectSeq(f.lines, IsPageLine)

\* the numbers the "Pages total" and "Pages read" lines of a V4 document give
PagesTotal(f) ==
    {l.d : l \in {f.lines[i] : i \in {j \in 1..Len(f.lines) :
                     f.lines[j].k = "Other" /\ f.lines[j].n \in {121, 122}}}}

\* a V2 or V3 file holding Page lines for pages 0 and 1 and no other page,
\* both of 4 bytes, has been upgraded
UpgradedPages01(c) ==
    /\ nfc_version(c.pre.lines) \in {2, 3}
    /\ DOMAIN PagesOfFile(c.pre) = {0, 1}
    /\ WellFormed(c.pre)
    /\ ~fromhex_raises(PageOr(c.pre, 0))

\* C13 as stated: the upgrade of a V2 or V3 image that holds pages 0 and 1
\* only gives a V4 document with 135 Page lines, Page 0 to Page 134, "Pages
\* total: 135" and "Version: 4", the pages not in the source holding
\* 00 00 00 00.
C13_Upgrade01Has135Pages ==
    \A c \in Calls :
      UpgradedPages01(c) =>
        /\ c.wrote
        /\ nfc_version(c.post.lines) = 4
        /\ Len(PageLines(c.post)) = 135
        /\ \A i \in 1..Len(PageLines(c.post)) : PageLines(c.post)[i].n = i - 1
        /\ PagesTotal(c.post) = {<<135>>}
        /\ \A n \in 2..134 : PageOr(c.post, n) = <<0, 0, 0, 0>>

\* C13 amended: the upgrade of a V2 or V3 image that holds pages 0 and 1
\* only gives a V4 document with "Version: 4", "Pages total: 2" and two Page
\* lines, Page 0 and Page 1 with the bytes of the source; the document has
\* 135 Page lines of 00 00 00 00 and "Pages total: 135" when the source has
\* no Page line at all.
C13_Upgrade01HasTwoPages ==
    \A c \in Calls :
      /\ UpgradedPages01(c) =>
           /\ c.wrote
           /\ nfc_version(c.post.lines) = 4
           /\ PageLines(c.post) = <<PageLine(0, PageOr(c.pre, 0)),
                                    PageLine(1, PageOr(c.pre, 1))>>
           /\ PagesTotal(c.post) = {<<2>>}
      /\ (nfc_version(c.pre.lines) \in {2, 3} /\ PageLines(c.pre) = <<>>) =>
           /\ c.wrote
           /\ nfc_version(c.post.lines) = 4
           /\ Len(PageLines(c.post)) = 135
           /\ \A i \in 1..135 :
                 PageLines(c.post)[i] = PageLine(i - 1, <<0, 0, 0, 0>>)
           /\ PagesTotal(c.post) = {<<135>>}

\* a V2 file holding pages 0 and 1 only was upgraded
C13_Witness ==
    \E c \in Calls :
      /\ UpgradedPages01(c)
      /\ nfc_version(c.pre.lines) = 2
      /\ c.wrote /\ c.post # c.pre

----------------------------------------------------------------------------
(* C14 *)

\* the call changed neither the file nor the backup store
ConvertNoOp(c) ==
    /\ ~c.backup /\ ~c.copied /\ ~c.wrote /\ ~c.version_conversion
    /\ c.post = c.pre
    /\ fs[c.path] = c.pre

\* the call before the last one, if there is one
PrevCalls == IF Len(calls) < 2 THEN {} ELSE {calls[Len(calls) - 1]}

\* upgrading an upgraded file: the call after a call that rewrote the file
\* is an "Already V4" no-op
ReconvertNoOp ==
    \A c \in Calls, b \in PrevCalls :
      b.wrote => c.ok /\ c.msg = "Already V4" /\ ConvertNoOp(c)

\* pages 0 and 1 are both there and one of them has an odd number of digits
OddUidPages(f) ==
    /\ {0, 1} \subseteq DOMAIN PagesOfFile(f)
    /\ \E n \in {0, 1} : \E i \in 1..Len(PagesOfFile(f)[n]) :
          PagesOfFile(f)[n][i] >= 256

\* C14 as stated: convert_nfc_to_v4 has exactly three outcomes by the version
\* of the source.  Version 2 or 3: the file is backed up and rewritten as a
\* V4 document, success is returned with the conversion marker.  Version 4:
\* success "Already V4", no backup, no write.  Any other version or no
\* Version line: failure "Unsupported version", no backup, no write.  So
\* upgrading an upgraded file is a no-op.
C14_ThreeOutcomes ==
    \A c \in Calls :
      LET v == nfc_version(c.pre.lines)
      IN /\ v \in {2, 3} =>
              /\ c.ok /\ c.version_conversion /\ c.wrote
              /\ nfc_version(c.post.lines) = 4
              /\ backups[c.path] = fs0[c.path]
         /\ v = 4 => c.ok /\ c.msg = "Already V4" /\ ConvertNoOp(c)
         /\ v \notin {2, 3, 4} =>
              ~c.ok /\ c.msg = "Unsupported version" /\ ConvertNoOp(c)
         /\ ReconvertNoOp

\* C14 amended: four outcomes.  Version 2 or 3 with pages 0-1 absent or in
\* whole bytes: backup_file is called, the file is rewritten as a V4
\* document and success is returned with the conversion marker; the backup
\* copy holds the original unless copying failed.  Version 2 or 3 with an
\* odd number of hex digits in page 0 or 1: backup_file is called, the file
\* is not rewritten and failure "Error converting file" is returned.
\* Version 4: success "Already V4", no backup, no write.  Any other version
\* or no Version line: failure "Unsupported version", no backup, no write.
\* Upgrading an upgraded file is a no-op.
C14_FourOutcomes ==
    \A c \in Calls :
      LET v == nfc_version(c.pre.lines)
          called == /\ c.backup
                    /\ c.path \in backup_tracker
                    /\ backups[c.path] \in {NoFile, fs0[c.path]}
                    /\ c.copied => backups[c.path] = c.pre
      IN /\ (v \in {2, 3} /\ ~OddUidPages(c.pre)) =>
              /\ c.ok /\ c.version_conversion /\ c.wrote /\ called
              /\ nfc_version(c.post.lines) = 4
              /\ fs[c.path] = c.post
         /\ (v \in {2, 3} /\ OddUidPages(c.pre)) =>
              /\ ~c.ok /\ c.msg = "Error converting file" /\ called
              /\ ~c.wrote /\ ~c.version_conversion
              /\ c.post = c.pre /\ fs[c.path] = c.pre
         /\ v = 4 => c.ok /\ c.msg = "Already V4" /\ ConvertNoOp(c)
         /\ v \notin {2, 3, 4} =>
              ~c.ok /\ c.msg = "Unsupported version" /\ ConvertNoOp(c)
         /\ ReconvertNoOp

\* a V3 file was upgraded, and upgraded again: the second call was a no-op
C14_Witness ==
    /\ Len(calls) = 2
    /\ nfc_version(calls[1].pre.lines) = 3
    /\ calls[1].wrote /\ calls[1].copied
    /\ calls[2].msg = "Already V4"
    /\ calls[2].pre = calls[1].post

----------------------------------------------------------------------------
(* C15 *)

\* "Failed authentication attempts: 0", and what split gives after the
\* newline that ends the document
TrailerLine == [k |-> "Other", n |-> 123, d |-> <<>>, raw |-> FALSE]
EmptyLine == [k |-> "Other", n |-> 0, d |-> <<>>, raw |-> FALSE]

\* C15: whenever the upgrade writes a V4 document, its Page lines are
\* consecutive lines numbered 0, 1, ... in increasing order, as many as the
\* highest page number of the source plus one (135 when the source has no
\* Page line); every page of the source stands at its number with the same
\* bytes, every other page is 00 00 00 00; "Pages total" and "Pages read"
\* give that count; the one UID line is page0[0:3] ++ page1[0:4], or
\* 04 AB 73 54 B8 B6 0F when page 0 or page 1 is absent; the last line is
\* "Failed authentication attempts: 0".
C15_V4PageTable ==
    \A c \in Calls :
      c.wrote =>
        LET pre == PagesOfFile(c.pre)
            doc == c.post.lines
            table == PageLines(c.post)
            count == Len(table)
        IN /\ IF DOMAIN pre = {} THEN count = 135
              ELSE /\ (count - 1) \in DOMAIN pre
                   /\ \A n \in DOMAIN pre : n < count
           /\ \A i \in 1..count :
                 /\ table[i].n = i - 1
                 /\ table[i].d = IF (i - 1) \in DOMAIN pre THEN pre[i - 1]
                                 ELSE <<0, 0, 0, 0>>
                 /\ ~table[i].raw
           /\ Len(doc) = count + 24
           /\ SubSeq(doc, 23, count + 22) = table
           /\ PagesTotal(c.post) = {<<count>>}
           /\ Len(UidLines(c.post)) = 1
           /\ UidLines(c.post)[1].d =
                 IF {0, 1} \subseteq DOMAIN pre
                 THEN SubSeq(pre[0], 1, 3) \o pre[1]
                 ELSE <<4, 171, 115, 84, 184, 182, 15>>
           /\ doc[Len(doc) - 1] = TrailerLine
           /\ doc[Len(doc)] = EmptyLine

\* a V2 file holding pages 0, 1 and 130 was upgraded: the table has 131
\* lines, Page 2 is 00 00 00 00 and Page 130 holds the bytes of the source
C15_Witness ==
    \E c \in Calls :
      /\ c.wrote
      /\ nfc_version(c.pre.lines) = 2
      /\ DOMAIN PagesOfFile(c.pre) = {0, 1, 130}
      /\ Len(PageLines(c.post)) = 131
      /\ PageOr(c.post, 2) = <<0, 0, 0, 0>>
      /\ PageOr(c.post, 130) = PageOr(c.pre, 130)

----------------------------------------------------------------------------
(* C16 *)

\* the raw dumps of the directory that are shorter than 540 bytes
ShortBins == {p \in 1..Len(fs0) : fs0[p].type = "bin" /\ Len(fs0[p].data) < 540}

\* C16: a raw dump shorter than 540 bytes decodes to no page at all.  In a
\* mutating run the file is never written and never backed up, the run does
\* not stop at it, and its status record says invalid, "Missing required
\* pages", not fixed.
C16_ShortBinSkipped ==
    \A p \in ShortBins :
      /\ DOMAIN extract_pages_from_bin(fs0[p]) = {}
      /\ fs[p] = fs0[p]
      /\ backups[p] = NoFile
      /\ p \notin backup_tracker
      /\ \A i \in 1..Len(log) :
            log[i].path = p => log[i].op = "fix_bin_file"
      /\ (cur = p) => pc \in {"scan", "fix"}
      /\ (p <= Len(all_files)) =>
            /\ all_files[p].path = p
            /\ ~all_files[p].is_valid
            /\ all_files[p].status = "Missing required pages"
            /\ ~all_files[p].was_fixed /\ ~all_files[p].was_converted
            /\ \A k \in DOMAIN all_files[p].problems : ~all_files[p].problems[k]

\* a mutating run over a raw dump of 539 bytes followed by a raw dump with a
\* wrong PACK is over: fix_bin_file was called on the first, the second was
\* repaired
C16_Witness ==
    /\ pc = "done" /\ ~opts.dry_run
    /\ Len(fs) = 2 /\ ShortBins = {1}
    /\ Len(fs0[1].data) = 539
    /\ \E i \in 1..Len(log) : log[i].path = 1 /\ log[i].op = "fix_bin_file"
    /\ Len(all_files) = 2
    /\ all_files[2].was_fixed

----------------------------------------------------------------------------
(* C17 *)

\* the backup_file calls for p in which the copy was made
Copies(p) == {i \in BackupCalls(p) : log[i].copied}

\* C17: within one run at most one backup copy is made of a file, whatever
\* upgrade and repair calls touch it: only the first backup_file call for a
\* path can copy, a later call for the same path returns without copying,
\* and the copy, once made, stays the content the file had when the run
\* started, also when the file is first upgraded to V4 and then repaired.
C17_OneBackupPerPath ==
    \A p \in 1..Len(fs) :
      /\ Cardinality(Copies(p)) <= 1
      /\ \A i \in Copies(p) : i = First(BackupCalls(p)) /\ log[i].io_ok
      /\ Copies(p) # {} <=> backups[p] # NoFile
      /\ backups[p] # NoFile => backups[p] = fs0[p]
      /\ BackupCalls(p) # {} <=> p \in backup_tracker

\* a file was upgraded and then repaired: backup_file was called twice for
\* it, the first call copied, the second did not although copying could have
\* succeeded, and the copy is the original
C17_Witness ==
    \E p \in 1..Len(fs) :
      \E i, j \in BackupCalls(p) :
        /\ i < j
        /\ log[i].copied
        /\ log[j].io_ok /\ ~log[j].copied
        /\ \E w \in Writes : i < w /\ w < j /\ log[w].path = p
        /\ \E w \in Writes : j < w /\ log[w].path = p
        /\ backups[p] = fs0[p]
        /\ fs[p] # fs0[p]

----------------------------------------------------------------------------
(* C18 *)

\* the eight per-field verdicts that make up the overall verdict
VerdictFields ==
    {"sn3", "bcc0", "bcc1", "password", "pack", "dlb", "cfg0", "cfg1"}

\* C18: the overall verdict of check_uid_comprehensive is true if and only if
\* the eight verdicts sn3, bcc0, bcc1, password, pack, dlb, cfg0 and cfg1 are
\* all true.  The verdict on the UID declaration has no part in it: the
\* overall verdict is the one the same pages get without a UID declaration,
\* and an image whose only defect is a UID declaration that differs from
\* pages 0-1 is reported valid.
C18_AllValidIsConjunction ==
    pc = "checked" =>
      /\ diag.all_valid <=> \A k \in VerdictFields : diag.problems[k]
      /\ diag.all_valid =
           check_uid_comprehensive(PagesOfFile(fs[1]), NoUid).all_valid
      /\ \A k \in VerdictFields :
           diag.problems[k] =
             check_uid_comprehensive(PagesOfFile(fs[1]), NoUid).problems[k]
      /\ \A u \in {StoredUid(fs[1])} :
           (Len(u) = 7 /\ u[4] # 136 /\ UidFieldOfFile(fs[1]).some
            /\ BuiltFrom([fs[1] EXCEPT !.lines = SelectSeq(@, IsPageLine)], u))
             => diag.all_valid

\* the validator ran on a text image whose UID declaration differs from
\* pages 0-1 and that has no other defect: uid_field is false, the overall
\* verdict true
C18_Witness ==
    /\ pc = "checked"
    /\ fs[1].type = "nfc"
    /\ UidFieldOfFile(fs[1]).some
    /\ UidFieldOfFile(fs[1]).d # StoredUid(fs[1])
    /\ ~diag.problems.uid_field
    /\ diag.all_valid

----------------------------------------------------------------------------
(* C19 *)

\* the pages each verdict of the diagnosis is read from
BackingPages(k) ==
    CASE k \in {"sn3", "bcc0"} -> {0, 1}
      [] k = "bcc1" -> {2}
      [] k = "password" -> {133}
      [] k = "pack" -> {134}
      [] k = "dlb" -> {130}
      [] k = "cfg0" -> {131}
      [] k = "cfg1" -> {132}

\* every verdict other than uid_field whose backing page is absent is false
AbsentPageFieldsFalse ==
    \A k \in VerdictFields :
      ~(BackingPages(k) \subseteq DOMAIN PagesOfFile(fs[1])) => ~diag.problems[k]

\* C19 as stated: for every image without a UID declaration (every raw dump,
\* every text image without a UID line), whichever pages are present or
\* absent, the diagnosis reports uid_field true; every other field whose
\* backing page is absent is reported false.
C19_NoDeclarationUidFieldTrue ==
    (pc = "checked" /\ ~UidFieldOfFile(fs[1]).some) =>
       /\ diag.problems.uid_field
       /\ AbsentPageFieldsFalse

\* C19, the part that holds: for an image without a UID declaration the
\* diagnosis reports uid_field true when pages 0 and 1 are present and give
\* the 7 UID bytes, and false together with every other field when they do
\* not; every other field whose backing page is absent is reported false.
C19_UidFieldTrueWithUidPages ==
    (pc = "checked" /\ ~UidFieldOfFile(fs[1]).some) =>
       /\ diag.problems.uid_field <=> Len(StoredUid(fs[1])) = 7
       /\ ~diag.problems.uid_field =>
             \A k \in DOMAIN diag.problems : ~diag.problems[k]
       /\ AbsentPageFieldsFalse

\* the validator ran on a raw dump of 539 bytes: uid_field is reported false
C19_Witness ==
    /\ pc = "checked"
    /\ fs[1].type = "bin" /\ Len(fs[1].data) = 539
    /\ ~diag.problems.uid_field
    /\ diag.status = "Missing required pages"

----------------------------------------------------------------------------
(* SpecDerive: the image of a UID is validated, then repaired with every    *)
(* flag enabled: the validator and the repair planner each derive BCC0,     *)
(* BCC1 and the password from the UID                                       *)

\* the values the bytes of the UIDs range over: 04, 88, AB
DeriveBytes == {4, 136, 171}

DeriveUids == [1..7 -> DeriveBytes]

\* the derived field that is stored wrong in the image, if any
DeriveDefects == {{}, {"bcc0"}, {"bcc1"}, {"password"}}

InitDerive ==
    /\ \E u \in DeriveUids, D \in DeriveDefects : fs = <<TextFile(u, D, 4)>>
    /\ fs0 = fs
    /\ job = NoJob
    /\ log = <<>>
    /\ backups = <<NoFile>>
    /\ backup_tracker = {}
    /\ opts = MkOpts(FixFlags, FALSE, FALSE)
    /\ pc = "derive"
    /\ cur = 1
    /\ all_files = <<>>
    /\ calls = <<>>
    /\ diag = NoDiag

\* check_uid_comprehensive on the image
DeriveInValidator ==
    /\ pc = "derive"
    /\ diag' = Validate(fs[cur])
    /\ pc' = "validated"
    /\ UNCHANGED <<fs, fs0, backups, backup_tracker, opts, cur, job, all_files,
                   log, calls>>

\* fix_nfc_file on the image
DeriveInPlanner ==
    /\ pc = "validated"
    /\ \E new_sn3 \in Sn3Draws(fs[cur], opts) :
         \E out \in {fix_nfc_file(fs[cur], opts, new_sn3)} :
          \E copy_ok \in CopyResults(out) :
            DoRepair(cur, out, copy_ok, new_sn3)
    /\ pc' = "planned"
    /\ UNCHANGED <<fs0, opts, cur, job, all_files, log, diag>>

NextDerive == DeriveInValidator \/ DeriveInPlanner

SpecDerive == InitDerive /\ [][NextDerive]_vars

----------------------------------------------------------------------------
(* C20 *)

\* bit i of the byte x
Bit(x, i) == (x \div (2 ^ i)) % 2

\* a ^ b ^ c ^ d of four bytes, bit by bit
Xor4(a, b, c, d) ==
    LET P(i) == (Bit(a, i) + Bit(b, i) + Bit(c, i) + Bit(d, i)) % 2
    IN P(0) + (2 * P(1)) + (4 * P(2)) + (8 * P(3)) + (16 * P(4))
       + (32 * P(5)) + (64 * P(6)) + (128 * P(7))

\* the expected values as C20 gives them
RefBcc0(u) == Xor4(136, u[1], u[2], u[3])
RefBcc1(u) == Xor4(u[4], u[5], u[6], u[7])
RefPassword(u) ==
    <<Xor4(u[2], u[4], 170, 0), Xor4(u[3], u[5], 85, 0),
      Xor4(u[4], u[6], 170, 0), Xor4(u[5], u[7], 85, 0)>>

IsByte(x) == x \in 0..255

\* C20: for every 7-byte UID SN0..SN6 the expected values are
\* BCC0 = 0x88 ^ SN0 ^ SN1 ^ SN2, BCC1 = SN3 ^ SN4 ^ SN5 ^ SN6 and
\* Password = [SN1^SN3^0xAA, SN2^SN4^0x55, SN3^SN5^0xAA, SN4^SN6^0x55], each
\* byte in 0..255.  The validator reports a stored BCC0, BCC1 or password
\* right exactly when it is that value; the repair planner schedules the
\* field exactly when the stored value differs from that value (of the UID
\* it stores) and writes that value; and the validator, deriving the values
\* again from the UID the repair stored, finds the three fields right.
C20_DerivedValues ==
    LET u0 == StoredUid(fs0[1])
        pre == PagesOfFile(fs0[1])
    IN /\ expected_bcc0(u0) = RefBcc0(u0)
       /\ expected_bcc1(u0) = RefBcc1(u0)
       /\ calculate_password_from_uid(u0) = RefPassword(u0)
       /\ IsByte(expected_bcc0(u0)) /\ IsByte(expected_bcc1(u0))
       /\ \A i \in 1..4 : IsByte(calculate_password_from_uid(u0)[i])
       /\ pc \in {"validated", "planned"} =>
            /\ diag.problems.bcc0 <=> pre[0][4] = RefBcc0(u0)
            /\ diag.problems.bcc1 <=> pre[2][1] = RefBcc1(u0)
            /\ diag.problems.password <=> pre[133] = RefPassword(u0)
       /\ \A c \in Calls :
            LET post == PagesOfFile(c.post)
                u1 == StoredUid(c.post)
            IN /\ c.raised = ""
               /\ c.issue_types.bcc0 <=> pre[0][4] # RefBcc0(u1)
               /\ c.issue_types.bcc1 <=> pre[2][1] # RefBcc1(u1)
               /\ c.issue_types.password <=> pre[133] # RefPassword(u1)
               /\ post[0][4] = RefBcc0(u1)
               /\ post[2][1] = RefBcc1(u1)
               /\ post[133] = RefPassword(u1)
               /\ \A n \in {0, 1, 2, 133} : \A i \in 1..4 : IsByte(post[n][i])
               /\ LET again == Validate(c.post).problems
                  IN again.bcc0 /\ again.bcc1 /\ again.password

\* the image of 04 AB 88 88 AB 04 AB with a wrong password was validated and
\* repaired: SN3 was resampled, BCC1 and the password were scheduled and
\* written
C20_Witness ==
    \E c \in Calls :
      /\ pc = "planned"
      /\ StoredUid(fs0[1]) = <<4, 171, 136, 136, 171, 4, 171>>
      /\ ~diag.problems.password /\ diag.problems.bcc1
      /\ c.wrote
      /\ c.issue_types.sn3 /\ c.issue_types.bcc1 /\ c.issue_types.password
      /\ ~c.issue_types.bcc0

----------------------------------------------------------------------------
(* C21 *)

\* the operations the run made on the file p, in order
OpsOf(p) ==
    LET e == SelectSeq(log, LAMBDA x : x.path = p)
    IN [i \in 1..Len(e) |-> e[i].op]

IsPrefixOf(s, t) == Len(s) <= Len(t) /\ s = SubSeq(t, 1, Len(s))

UpgradeOps == <<"convert_nfc_to_v4", "backup_file", "write">>
RepairOps(f) == <<FixOp(f), "backup_file", "write">>

\* the calls of the repair the step appends to the log
NewFixCalls ==
    {i \in (Len(log) + 1)..Len(log') :
        log'[i].op \in {"fix_nfc_file", "fix_bin_file"}}

\* the operations on every file are a prefix of: upgrade (call, backup, write),
\* repair (call, backup, write), the upgrade being there only for a version 2
\* or 3 text file when it was requested; so no file has two upgrade writes
\* or two repair writes
C21_OrderOnFile ==
    \A p \in 1..Len(fs) :
       LET ops == OpsOf(p)
       IN /\ \/ IsPrefixOf(ops, RepairOps(fs0[p]))
             \/ /\ IsPrefixOf(ops, UpgradeOps \o RepairOps(fs0[p]))
                /\ fs0[p].type = "nfc"
                /\ nfc_version(fs0[p].lines) \in {2, 3}
                /\ opts.convert_to_v4
          /\ ops # <<>> => ~opts.dry_run /\ p <= cur

\* a step of the run on the file it is at
C21_Step ==
    /\ \* the upgrade write is followed by the validation
       (pc = "convert_write" /\ pc' # pc) =>
          /\ pc' = "validate"
          /\ fs'[cur] = convert_nfc_to_v4(fs[cur]).content
          /\ nfc_version(fs'[cur].lines) = 4
    /\ \* the validation after the upgrade reads the file as it now is
       (pc = "validate" /\ pc' \notin {"validate", "crashed"}) =>
          diag' = Validate(fs[cur]) /\ fs' = fs
    /\ \* the repair is entered from the validation of the file as it is on
       \* disk, and only when it reported the image invalid
       (pc' = "fix" /\ pc # "fix") =>
          /\ diag' = Validate(fs[cur]) /\ ~diag'.all_valid /\ fs' = fs
          /\ ~opts.dry_run
    /\ \* the repair is called once, on a file the validation found invalid
       NewFixCalls # {} =>
          /\ pc = "fix" /\ pc' # "fix"
          /\ Cardinality(NewFixCalls) = 1
          /\ diag = Validate(fs[cur]) /\ ~diag.all_valid
    /\ \* a file found valid is done without a repair call
       (Len(all_files') > Len(all_files) /\ pc \in {"scan", "validate"}) =>
          /\ NewFixCalls = {}
          /\ opts.dry_run \/ Validate(fs[cur]).all_valid
    /\ \* the repair write is followed by one validation of the written file
       (pc = "fix_write" /\ fs' # fs) =>
          /\ diag' = Validate(fs'[cur])
          /\ Len(all_files') = Len(all_files) + 1
          /\ all_files'[Len(all_files')].is_valid = diag'.all_valid
          /\ all_files'[Len(all_files')].was_fixed
          /\ pc' = "scan" /\ cur' = cur + 1

\* C21: in a mutating run the operations on one file occur in the order
\* upgrade write (only when requested and the version is 2 or 3), validation
\* of the file as it now is on disk, at most one repair pass, called only
\* when that validation reported the image invalid, then one validation of
\* the repaired file; a file that validates is never passed to the repair and
\* no file receives more than one upgrade write and one repair write.
C21_FixedOrder == [](C21_OrderOnFile) /\ [][C21_Step]_vars

\* a version 3 text file with a wrong PACK was upgraded, validated, repaired
\* and validated again; the run is over
C21_Witness ==
    /\ pc = "done"
    /\ Len(fs) = 1 /\ fs0[1].type = "nfc"
    /\ nfc_version(fs0[1].lines) = 3
    /\ OpsOf(1) = UpgradeOps \o RepairOps(fs0[1])
    /\ all_files[1].was_converted /\ all_files[1].was_fixed
    /\ all_files[1].is_valid

----------------------------------------------------------------------------
(* C22 *)

\* text files with pages 0 and 1 whose UID declaration differs from the UID
\* of the pages
UidMismatched(f) ==
    /\ f.type = "nfc"
    /\ HasAll(PagesOfFile(f), {0, 1})
    /\ UidFieldOfFile(f).some
    /\ UidFieldOfFile(f).d # UidOf(PagesOfFile(f))

\* C22, as stated: in a mutating run with fix_uid enabled, every text file
\* that has pages 0 and 1 and a UID declaration differing from the UID of
\* pages 0-1 ends the run with the declaration rewritten to match the pages,
\* the file whose declaration is its only defect included.
C22_UidDeclarationRewritten ==
    (pc = "done" /\ ~opts.dry_run /\ opts.fix_uid) =>
       \A p \in 1..Len(fs) :
          UidMismatched(fs0[p]) =>
             UidFieldOfFile(fs[p]).d = UidOf(PagesOfFile(fs[p]))

\* C22, what the program does with the file whose declaration is its only
\* defect: check_uid_comprehensive leaves uid_field out of all_valid, so the
\* file is recorded valid, the repair is not called and the file is left as
\* it was (unless the version upgrade rewrote it).
C22_OnlyDefectLeftAlone ==
    \A p \in 1..Len(all_files) :
       (/\ ~opts.dry_run
        /\ UidMismatched(fs0[p])
        /\ Validate(fs0[p]).all_valid
        /\ ~needs_conversion(opts, fs0[p]))
       => /\ fs[p] = fs0[p]
          /\ \A i \in 1..Len(log) : log[i].path # p
          /\ all_files[p].is_valid
          /\ ~all_files[p].problems.uid_field
          /\ ~all_files[p].was_fixed

\* a mutating run with every fix flag on is over; its one file had a wrong
\* UID declaration and nothing else wrong
C22_Witness ==
    /\ pc = "done" /\ ~opts.dry_run /\ AllOn(opts)
    /\ Len(fs) = 1
    /\ UidMismatched(fs0[1]) /\ Validate(fs0[1]).all_valid
    /\ UidMismatched(fs[1])

----------------------------------------------------------------------------
(* C23 *)

FieldOrder ==
    <<"uid_field", "sn3", "bcc0", "bcc1", "password", "pack", "dlb", "cfg0",
      "cfg1">>

FieldLabel ==
    [uid_field |-> "UID field", sn3 |-> "SN3", bcc0 |-> "BCC0",
     bcc1 |-> "BCC1", password |-> "Password", pack |-> "PACK", dlb |-> "DLB",
     cfg0 |-> "CFG0", cfg1 |-> "CFG1"]

ByteAt(s, i) == IF Len(s) >= i THEN <<s[i]>> ELSE <<>>

\* the byte values the file holds of the tracked field k
FieldBytes(f, k) ==
    CASE k = "uid_field" -> UidFieldOfFile(f).d
      [] k = "sn3" -> ByteAt(PageOr(f, 1), 1)
      [] k = "bcc0" -> ByteAt(PageOr(f, 0), 4)
      [] k = "bcc1" -> ByteAt(PageOr(f, 2), 1)
      [] k = "password" -> PageOr(f, 133)
      [] k = "pack" -> PageOr(f, 134)
      [] k = "dlb" -> PageOr(f, 130)
      [] k = "cfg0" -> PageOr(f, 131)
      [] k = "cfg1" -> PageOr(f, 132)

FieldChanged(c, k) == FieldBytes(c.post, k) # FieldBytes(c.pre, k)

\* the labels of the fields the issue flags name, in the order of FieldOrder
RECURSIVE NamedFrom(_, _)
NamedFrom(it, i) ==
    IF i > Len(FieldOrder) THEN <<>>
    ELSE (IF it[FieldOrder[i]] THEN <<FieldLabel[FieldOrder[i]]>> ELSE <<>>)
         \o NamedFrom(it, i + 1)

ChangesInOrder(c) == c.changes = NamedFrom(c.issue_types, 1)

\* C23, as stated: a tracked field has other byte values in the file after
\* the repair than before if and only if the returned change list and issue
\* flags name it, for every combination of fix flags and in both formats; the
\* descriptions come in the order UID field, SN3, BCC0, BCC1, Password, PACK,
\* DLB, CFG0, CFG1.
C23_ChangesAgreeWithWrite ==
    \A c \in Calls :
      /\ ChangesInOrder(c)
      /\ \A i \in 1..Len(FieldOrder) :
            FieldChanged(c, FieldOrder[i]) <=> c.issue_types[FieldOrder[i]]

\* C23, what holds: the descriptions come in that order; in a raw dump a
\* field changes exactly when it is named; in a text file a named page field
\* changes, and a field that changes without being named is one whose flag's
\* encoder branch is enabled (the UID declaration and BCC0 under fix_uid,
\* a page field under its own flag).
C23_NamedFieldsChange ==
    \A c \in Calls :
      /\ ChangesInOrder(c)
      /\ \A i \in 1..Len(FieldOrder) :
           LET k == FieldOrder[i]
           IN /\ c.pre.type = "bin" =>
                   (FieldChanged(c, k) <=> c.issue_types[k])
              /\ (c.issue_types[k] /\ k # "uid_field") => FieldChanged(c, k)
              /\ (FieldChanged(c, k) /\ ~c.issue_types[k]) =>
                   /\ c.pre.type = "nfc" /\ c.wrote
                   /\ FlagOn(opts, k) \/ (k = "bcc0" /\ opts.fix_uid)

\* a text repair with fix_bcc disabled named only PACK and wrote another
\* BCC0 as well
C23_Witness ==
    \E c \in Calls :
      /\ c.pre.type = "nfc" /\ c.wrote /\ ~opts.fix_bcc
      /\ c.changes = <<"PACK">>
      /\ FieldChanged(c, "bcc0") /\ ~c.issue_types.bcc0
      /\ FieldChanged(c, "pack")

----------------------------------------------------------------------------
(* C24 *)

\* the page of the field and the pages the validator reads together with it
OwnPage(k) ==
    CASE k = "password" -> 133 [] k = "pack" -> 134 [] k = "dlb" -> 130
      [] k = "cfg0" -> 131 [] k = "cfg1" -> 132

PageGroup(k) ==
    IF k \in {"password", "pack"} THEN {133, 134} ELSE {130, 131, 132}

PageFields == {"password", "pack", "dlb", "cfg0", "cfg1"}

\* the value the field is compared with
ExpectedField(f, k) ==
    CASE k = "password" -> RefPassword(StoredUid(f))
      [] k = "pack" -> <<128, 128, 0, 0>>
      [] k = "dlb" -> <<1, 0, 15, 191>>
      [] k = "cfg0" -> <<0, 0, 0, 4>>
      [] k = "cfg1" -> <<95, 0, 0, 0>>

\* page n of the file is present with at least 4 bytes
FourBytes(f, n) == Len(PageOr(f, n)) >= 4

OwnPageRight(f, k) ==
    /\ FourBytes(f, OwnPage(k))
    /\ Take(PageOr(f, OwnPage(k)), 4) = ExpectedField(f, k)

\* C24, as stated: with pages 0 and 1 present, each of password, pack, dlb,
\* cfg0, cfg1 is reported true exactly when its own page is present with 4
\* bytes holding the expected value, whatever other tracked page is absent.
C24_OwnPageOnly ==
    (pc = "checked" /\ Len(StoredUid(fs[1])) = 7) =>
       \A k \in PageFields : diag.problems[k] <=> OwnPageRight(fs[1], k)

\* C24, what the validator does: password and pack are each reported true
\* exactly when pages 133 and 134 are both present with 4 bytes and the
\* field's own page holds the expected value; dlb, cfg0 and cfg1 exactly when
\* pages 130, 131 and 132 are all present with 4 bytes and the field's own
\* page holds the expected value.  So a field whose own page is right is
\* reported false when another page of its group is absent or short.
C24_PageGroups ==
    (pc = "checked" /\ Len(StoredUid(fs[1])) = 7) =>
       \A k \in PageFields :
          diag.problems[k] <=>
             /\ \A n \in PageGroup(k) : FourBytes(fs[1], n)
             /\ OwnPageRight(fs[1], k)

\* the validator ran on a text image without page 131 whose DLB and CFG1 are
\* right: both are reported false
C24_Witness ==
    /\ pc = "checked" /\ Len(StoredUid(fs[1])) = 7
    /\ 131 \notin DOMAIN PagesOfFile(fs[1])
    /\ OwnPageRight(fs[1], "dlb") /\ OwnPageRight(fs[1], "cfg1")
    /\ ~diag.problems.dlb /\ ~diag.problems.cfg1
    /\ diag.problems.password /\ diag.problems.pack

----------------------------------------------------------------------------
(* C25 *)

\* every backup copy that exists is the file as it was when the run started
BackupsAreOriginals ==
    \A p \in 1..Len(fs) : backups[p] # NoFile => backups[p] = fs0[p]

\* a step changes the backup of a file only by creating it, from the file
\* that no write of the run has touched yet; once the file was upgraded, the
\* repair's call of backup_file leaves the backup folder as it is
BackupStep ==
    /\ \A p \in 1..Len(fs) :
          backups'[p] # backups[p] =>
             /\ backups[p] = NoFile
             /\ backups'[p] = fs0[p]
             /\ fs[p] = fs0[p]
             /\ \A i \in Writes : log[i].path # p
    /\ (pc = "fix" /\ job.was_converted) => backups' = backups

\* C25: whenever a backup copy of a file exists in a run, its content is the
\* content the file had at the start of the run, for every sequence of
\* operations on the file, upgrade to V4 followed by repair included: the
\* repair after an upgrade never replaces or adds a backup holding the
\* upgraded content.
C25_BackupIsOriginal == [](BackupsAreOriginals) /\ [][BackupStep]_vars

\* a version 3 file was upgraded and repaired, copying allowed at both calls
\* of backup_file: the backup is the version 3 original, the file is version 4
C25_Witness ==
    /\ pc = "done" /\ Len(fs) = 1
    /\ OpsOf(1) = UpgradeOps \o RepairOps(fs0[1])
    /\ \A i \in BackupCalls(1) : log[i].io_ok
    /\ backups[1] = fs0[1]
    /\ nfc_version(backups[1].lines) = 3
    /\ nfc_version(fs[1].lines) = 4
    /\ fs[1] # convert_nfc_to_v4(fs0[1]).content

----------------------------------------------------------------------------
(* C26 *)

\* the calls that upgraded the file
Upgrades == {c \in Calls : c.version_conversion /\ c.wrote}

\* the V4 document, decoded again, is self-consistent
SelfConsistent(f) ==
    /\ nfc_version(f.lines) = 4
    /\ HasAll(PagesOfFile(f), {0, 1})
    /\ UidFieldOfFile(f).some
    /\ UidFieldOfFile(f).d = UidOf(PagesOfFile(f))
    /\ Validate(f).status = "checked"
    /\ Validate(f).problems.uid_field

\* C26, as stated: for every V2 or V3 source image the V4 document the
\* upgrade produces is self-consistent when decoded again: its UID
\* declaration is the UID of its own pages 0-1, its version is 4 and it has
\* pages 0 and 1, so the validator evaluates its fields.
C26_UpgradeSelfConsistent ==
    \A c \in Upgrades : SelfConsistent(c.post)

\* C26 amended: the V4 document has version 4 in every case.  When the
\* source has pages 0 and 1 giving the 7 UID bytes, the document is
\* self-consistent.  When the source has pages 0 and 1 giving fewer bytes,
\* the declaration holds those bytes and the validator reports an invalid
\* UID length.  When the source lacks page 0 or page 1, the declaration is
\* the fallback UID 04 AB 73 54 B8 B6 0F, whatever the pages of the document
\* hold: the pages of the source, 00 00 00 00 for every missing page below
\* the highest source page, and no page 1 at all when page 0 is the only
\* page of the source.
C26_UpgradeConsistentWithUidPages ==
    \A c \in Upgrades :
       LET src == PagesOfFile(c.pre)
           doc == PagesOfFile(c.post)
           decl == UidFieldOfFile(c.post)
       IN /\ nfc_version(c.post.lines) = 4
          /\ nfc_version(c.pre.lines) \in {2, 3}
          /\ decl.some
          /\ \A n \in DOMAIN src : n \in DOMAIN doc /\ doc[n] = src[n]
          /\ \A n \in DOMAIN doc \ DOMAIN src : doc[n] = <<0, 0, 0, 0>>
          /\ IF HasAll(src, {0, 1})
             THEN /\ decl.d = UidOf(src)
                  /\ IF Len(UidOf(src)) = 7 THEN SelfConsistent(c.post)
                     ELSE Validate(c.post).status = "Invalid UID length"
             ELSE /\ decl.d = <<4, 171, 115, 84, 184, 182, 15>>
                  /\ DOMAIN doc =
                        IF DOMAIN src = {} THEN 0..134 ELSE 0..Max(DOMAIN src)
                  /\ 1 \in DOMAIN doc <=> DOMAIN src # {0}

\* a version 2 file with Page 0 and Page 3 only was upgraded: the document
\* declares the fallback UID and has a Page 1 of zeros
C26_Witness ==
    \E c \in Upgrades :
       /\ nfc_version(c.pre.lines) = 2
       /\ DOMAIN PagesOfFile(c.pre) = {0, 3}
       /\ PagesOfFile(c.post)[1] = <<0, 0, 0, 0>>
       /\ UidFieldOfFile(c.post).d = <<4, 171, 115, 84, 184, 182, 15>>
       /\ ~Validate(c.post).problems.uid_field

----------------------------------------------------------------------------
(* SpecPair: the same logical image as a text file (path 1) and as a raw    *)
(* dump (path 2), each repaired once with the same flags and the same       *)
(* resampled SN3                                                            *)

PairInputs ==
    {<<TextFile(u, D, 4), BinFile(u, D, MinBinLen)>> :
        u \in UidSet, D \in DefectSets(ValueDefects, MaxDefects)}

InitPair ==
    /\ fs \in PairInputs
    /\ fs0 = fs
    /\ backups = <<NoFile, NoFile>>
    /\ backup_tracker = {}
    /\ \E on \in SUBSET FixFlags : opts = MkOpts(on, FALSE, FALSE)
    /\ \E new_sn3 \in Sn3Draws(fs[1], opts) :
          job = [was_converted |-> FALSE, new_sn3 |-> new_sn3]
    /\ pc = "pair"
    /\ cur = 1
    /\ all_files = <<>>
    /\ log = <<>>
    /\ calls = <<>>
    /\ diag = NoDiag

Repaired(p) == \E i \in 1..Len(calls) : calls[i].path = p

\* fix_nfc_file on the text file
PairNfc ==
    /\ pc = "pair" /\ ~Repaired(1)
    /\ \E out \in {fix_nfc_file(fs[1], opts, job.new_sn3)} :
         \E copy_ok \in CopyResults(out) :
            DoRepair(1, out, copy_ok, job.new_sn3)
    /\ UNCHANGED <<fs0, opts, pc, cur, job, all_files, log, diag>>

\* fix_bin_file on the raw dump
PairBin ==
    /\ pc = "pair" /\ ~Repaired(2)
    /\ \E out \in {fix_bin_file(fs[2], opts, job.new_sn3)} :
         \E copy_ok \in CopyResults(out) :
            DoRepair(2, out, copy_ok, job.new_sn3)
    /\ UNCHANGED <<fs0, opts, pc, cur, job, all_files, log, diag>>

NextPair == PairNfc \/ PairBin

SpecPair == InitPair /\ [][NextPair]_vars

----------------------------------------------------------------------------
(* C27 *)

\* the call made on path p
CallOn(p) == calls[CHOOSE i \in 1..Len(calls) : calls[i].path = p]

BothRepaired == Repaired(1) /\ Repaired(2)

\* the two images hold the same bytes in every tracked page
SameTrackedPages(f, g) ==
    \A n \in TrackedPages : PageOr(f, n) = PageOr(g, n)

\* C27, as stated: for the same logical image and the same six fix flags the
\* text repair and the binary repair, with the same resampled SN3, return
\* the same change descriptions and leave the same byte values in every
\* tracked page.
C27_TextAndBinEquivalent ==
    BothRepaired =>
       /\ SameTrackedPages(fs0[1], fs0[2])
       /\ CallOn(1).changes = CallOn(2).changes
       /\ CallOn(1).issue_types = CallOn(2).issue_types
       /\ SameTrackedPages(CallOn(1).post, CallOn(2).post)

\* C27, what holds: the two repairs return the same descriptions and write
\* or not alike; the tracked pages they leave are the same except for BCC0
\* (byte 3 of page 0), which the text repair rewrites with the derived value
\* when fix_uid is on and fix_bcc is off, and the binary repair leaves alone.
C27_EquivalentButBcc0 ==
    BothRepaired =>
       LET t == CallOn(1)
           b == CallOn(2)
       IN /\ SameTrackedPages(fs0[1], fs0[2])
          /\ t.changes = b.changes
          /\ t.issue_types = b.issue_types
          /\ t.wrote = b.wrote /\ t.ok = b.ok
          /\ \A n \in TrackedPages \ {0} : PageOr(t.post, n) = PageOr(b.post, n)
          /\ Take(PageOr(t.post, 0), 3) = Take(PageOr(b.post, 0), 3)
          /\ PageOr(t.post, 0) # PageOr(b.post, 0) =>
                /\ opts.fix_uid /\ ~opts.fix_bcc /\ t.wrote
                /\ PageOr(b.post, 0)[4] = PageOr(fs0[2], 0)[4]
                /\ PageOr(t.post, 0)[4] = RefBcc0(StoredUid(t.post))

\* both repairs ran with fix_bcc off and fix_uid and fix_pack on, on an image
\* with a wrong BCC0 and a wrong PACK: both name PACK only, the text file has
\* the derived BCC0, the raw dump the old one
C27_Witness ==
    /\ BothRepaired
    /\ opts.fix_uid /\ opts.fix_pack /\ ~opts.fix_bcc
    /\ CallOn(1).changes = <<"PACK">> /\ CallOn(2).changes = <<"PACK">>
    /\ PageOr(CallOn(1).post, 0)[4] # PageOr(CallOn(2).post, 0)[4]
    /\ PageOr(CallOn(1).post, 134) = PageOr(CallOn(2).post, 134)

============================================================================
